---- MODULE Spec2Model ----
(***************************************************************************)
(* A model of the AGS file analysis pipeline: the group parser of          *)
(* agsparser.py (a state machine over the tokenized lines of one file),    *)
(* the row cleaners and the cross-file combiner of cleaners.py, and the    *)
(* lithology mapper and the duplicate-test remover of triaxial.py and      *)
(* MAINcode.py.                                                            *)
(*                                                                         *)
(* A Python str is modelled as the sequence of its characters, so that     *)
(* strip, upper, split(" | ") and the joins are computed, not assumed.     *)
(* None and NaN are values no string equals.                               *)
(***************************************************************************)
EXTENDS Integers, Sequences, FiniteSets, TLC

(* ------------------------------ bounds -------------------------------- *)

\* The number of lines of the file that the parser model reads.
MaxLines == 5

\* The number of lines of a file in which a group is started twice.
MaxRestartLines == 6

\* The number of rows of a table handed to a row cleaner.
MaxRows == 2

\* The number of intervals of the GIU table.
MaxIntervals == 2

\* The number of rows of the triaxial table handed to the duplicate remover.
MaxTests == 3

(* ------------- calls of the table functions (cleaners, triaxial) -------- *)

VARIABLES
  op,    \* the function called last, "" before any call
  args,  \* the argument of the call
  ret,   \* what the call returned
  ret2   \* what the function returned when called again on ret

call_vars == <<op, args, ret, ret2>>

(* --------------------------- Python strings --------------------------- *)

Min(a, b) == IF a <= b THEN a ELSE b

\* The characters str.strip() removes (the ones the model's inputs use).
WS == {" ", "\t"}

\* The byte order mark U+FEFF, as one character.
BOM == "BOM"

\* str.lstrip(chars)
lstrip(s, chars) ==
  IF \A i \in 1..Len(s) : s[i] \in chars THEN <<>>
  ELSE LET a == CHOOSE i \in 1..Len(s) :
                  s[i] \notin chars /\ \A j \in 1..(i-1) : s[j] \in chars
       IN SubSeq(s, a, Len(s))

\* str.rstrip(chars)
rstrip(s, chars) ==
  IF \A i \in 1..Len(s) : s[i] \in chars THEN <<>>
  ELSE LET b == CHOOSE i \in 1..Len(s) :
                  s[i] \notin chars /\ \A j \in (i+1)..Len(s) : s[j] \in chars
       IN SubSeq(s, 1, b)

\* str.strip(chars); strip(s, WS) is s.strip()
strip(s, chars) == rstrip(lstrip(s, chars), chars)

\* One character of str.upper().
UpperChar(c) ==
  CASE c = "a" -> "A" [] c = "b" -> "B" [] c = "c" -> "C" [] c = "d" -> "D"
    [] c = "e" -> "E" [] c = "f" -> "F" [] c = "g" -> "G" [] c = "h" -> "H"
    [] c = "i" -> "I" [] c = "j" -> "J" [] c = "k" -> "K" [] c = "l" -> "L"
    [] c = "m" -> "M" [] c = "n" -> "N" [] c = "o" -> "O" [] c = "p" -> "P"
    [] c = "q" -> "Q" [] c = "r" -> "R" [] c = "s" -> "S" [] c = "t" -> "T"
    [] c = "u" -> "U" [] c = "v" -> "V" [] c = "w" -> "W" [] c = "x" -> "X"
    [] c = "y" -> "Y" [] c = "z" -> "Z" [] OTHER -> c

\* str.upper()
upper(s) == [i \in 1..Len(s) |-> UpperChar(s[i])]

\* str.startswith(p)
startswith(s, p) == Len(s) >= Len(p) /\ SubSeq(s, 1, Len(p)) = p

\* str.find(sep) + 1: the first position where sep occurs in s, 0 if none.
find(s, sep) ==
  LET hits == {i \in 1..(Len(s) - Len(sep) + 1) : SubSeq(s, i, i + Len(sep) - 1) = sep}
  IN IF hits = {} THEN 0 ELSE CHOOSE i \in hits : \A j \in hits : i <= j

\* str.split(sep): left to right, occurrences that do not overlap.
RECURSIVE split(_, _)
split(s, sep) ==
  LET i == find(s, sep)
  IN IF i = 0 THEN <<s>>
     ELSE <<SubSeq(s, 1, i - 1)>> \o split(SubSeq(s, i + Len(sep), Len(s)), sep)

\* sep.join(parts)
RECURSIVE join(_, _)
join(parts, sep) ==
  IF Len(parts) = 0 THEN <<>>
  ELSE IF Len(parts) = 1 THEN parts[1]
  ELSE parts[1] \o sep \o join(Tail(parts), sep)

\* The elements of a sequence.
Range(seq) == {seq[i] : i \in 1..Len(seq)}

\* [x for x in seq if Keep(x)]
RECURSIVE SelectSeqIdx(_, _)
SelectSeqIdx(seq, keep) ==
  IF Len(seq) = 0 THEN <<>>
  ELSE (IF keep[1] THEN <<seq[1]>> ELSE <<>>)
       \o SelectSeqIdx(Tail(seq), Tail(keep))

(* ---------------------------- Python dicts ---------------------------- *)

\* dict.get(key, "")
get(row, key) == IF key \in DOMAIN row THEN row[key] ELSE <<>>

\* d[key] = value
put(row, key, value) ==
  [k \in DOMAIN row \cup {key} |-> IF k = key THEN value ELSE row[k]]

\* dict(zip(keys, vals)): pairs up to the shorter list, a later pair overwrites
zip_dict(keys, vals) ==
  LET n == Min(Len(keys), Len(vals))
  IN [k \in {keys[i] : i \in 1..n} |->
        vals[CHOOSE i \in 1..n : keys[i] = k /\ \A j \in (i+1)..n : keys[j] # k]]

(* ------------------------------ literals ------------------------------ *)

\* The keywords of the parser.
kw ==
  [GROUP |-> <<"G","R","O","U","P">>,
   HEADING |-> <<"H","E","A","D","I","N","G">>,
   DATA |-> <<"D","A","T","A">>,
   CONT |-> <<"<","C","O","N","T",">">>,
   UNITS |-> <<"<","U","N","I","T","S",">">>,
   UNIT_B |-> <<"<","U","N","I","T",">">>,
   UNIT |-> <<"U","N","I","T">>,
   STARS |-> <<"*","*">>]

\* The column names the table functions know.
colname ==
  [HOLE_ID |-> <<"H","O","L","E","_","I","D">>,
   SPEC_DEPTH |-> <<"S","P","E","C","_","D","E","P","T","H">>,
   CELL |-> <<"C","E","L","L">>,
   DEVF |-> <<"D","E","V","F">>,
   PWPF |-> <<"P","W","P","F">>,
   TEST_TYPE |-> <<"T","E","S","T","_","T","Y","P","E">>,
   SOURCE_FILE |-> <<"S","O","U","R","C","E","_","F","I","L","E">>]

\* The texts the inputs of the model are made of: group names, field values,
\* file names.
txt ==
  [TRIX |-> <<"T","R","I","X">>,
   DETL |-> <<"D","E","T","L">>,
   DETL_TOP |-> <<"D","E","T","L","_","T","O","P">>,
   DETL_DESC |-> <<"D","E","T","L","_","D","E","S","C">>,
   BH1 |-> <<"B","H","1">>,
   v5_0 |-> <<"5",".","0">>,
   v100 |-> <<"1","0","0">>,
   v50 |-> <<"5","0">>,
   Sandy_clay |-> <<"S","a","n","d","y"," ","c","l","a","y">>,
   with_gravel |-> <<"w","i","t","h"," ","g","r","a","v","e","l">>,
   Sandy_clay_with_gravel |-> <<"S","a","n","d","y"," ","c","l","a","y"," ","|"," ","w","i","t","h"," ","g","r","a","v","e","l">>,
   A |-> <<"A">>,
   A_B |-> <<"A"," ","|"," ","B">>,
   xxDETL |-> <<"*","*","D","E","T","L">>,
   xHOLE_ID |-> <<"*","H","O","L","E","_","I","D">>,
   xDETL_DESC |-> <<"*","D","E","T","L","_","D","E","S","C">>,
   xDETL_TOP |-> <<"*","D","E","T","L","_","T","O","P">>,
   m |-> <<"m">>,
   empty |-> <<>>,
   space |-> <<" ">>,
   A_A |-> <<"A"," ","|"," ","A">>,
   B_B |-> <<"B"," ","|"," ","B">>,
   BH2 |-> <<"B","H","2">>,
   CLAY |-> <<"C","L","A","Y">>,
   SAND |-> <<"S","A","N","D">>,
   A_bar_B |-> <<"A","|","B">>,
   B_bar_C |-> <<"B","|","C">>,
   C |-> <<"C">>,
   f |-> <<"f">>,
   f1 |-> <<"f","1",".","a","g","s">>,
   v20 |-> <<"2","0">>,
   CU |-> <<"C","U">>,
   bh1 |-> <<"b","h","1">>,
   f2 |-> <<"f","2",".","a","g","s">>]
PIPE == <<" ","|"," ">>
s_nan == <<"n","a","n">>
BAR == <<"|">>
DOT == <<".">>

(* ----------------------- cleaners.py: data frames ---------------------- *)

\* A table is [cols |-> the set of its column names, rows |-> its rows in
\* order], each row a function from cols to cells; a cell is a string or NaN.
NaN == <<"NaN">>

\* A row on the columns cols, NaN where it has no value.
reindex(row, cols) == [c \in cols |-> IF c \in DOMAIN row THEN row[c] ELSE NaN]

\* pd.DataFrame(rows) for a list of dicts
DataFrame(rows) ==
  LET cols == UNION {DOMAIN rows[i] : i \in 1..Len(rows)}
  IN [cols |-> cols, rows |-> [i \in 1..Len(rows) |-> reindex(rows[i], cols)]]

\* df.empty: no rows or no columns
empty(df) == Len(df.rows) = 0 \/ df.cols = {}

\* df[col] = value, for a scalar
assign(df, col, value) ==
  [cols |-> df.cols \cup {col},
   rows |-> [i \in 1..Len(df.rows) |-> put(df.rows[i], col, value)]]

\* pd.concat(dfs, ignore_index=True)
concat(dfs) ==
  LET cols == UNION {dfs[i].cols : i \in 1..Len(dfs)}
      RECURSIVE stack(_)
      stack(k) == IF k > Len(dfs) THEN <<>>
                  ELSE [i \in 1..Len(dfs[k].rows) |-> reindex(dfs[k].rows[i], cols)]
                       \o stack(k + 1)
  IN [cols |-> cols, rows |-> stack(1)]

\* A cell that replace(r"^\s*$", np.nan, regex=True) leaves or makes NaN.
is_blank(cell) == cell = NaN \/ \A i \in 1..Len(cell) : cell[i] \in WS

\* clean.notna().sum(axis=1) for one row
notna_count(row) == Cardinality({c \in DOMAIN row : ~is_blank(row[c])})

\* keeps_row with the threshold off by one: nn > 0
keeps_row_nonempty(row) == notna_count(row) > 0

\* The rows drop_singleton_rows keeps: nn > 1
keeps_row(row) == notna_count(row) > 1

drop_singleton_rows(df) ==
  IF empty(df) THEN df
  ELSE [cols |-> df.cols,
        rows |-> SelectSeqIdx(df.rows, [i \in 1..Len(df.rows) |-> keeps_row(df.rows[i])])]

\* split_values[col] of expand_rows for one cell
split_values(cell) == IF cell # NaN THEN split(cell, PIPE) ELSE <<<<>>>>

\* The rows expand_rows emits for one row of the table.
expand_row(row) ==
  LET cols == DOMAIN row
      values == [c \in cols |-> split_values(row[c])]
      all_same == \A c \in cols : Cardinality(Range(values[c])) = 1
      lens == {Len(values[c]) : c \in cols}
      max_len == IF cols = {} THEN 1 ELSE CHOOSE m \in lens : \A k \in lens : k <= m
  IN IF all_same /\ \A c \in cols : Len(values[c]) > 1
     THEN <<[c \in cols |-> values[c][1]]>>
     ELSE [i \in 1..max_len |->
             [c \in cols |-> IF i <= Len(values[c]) THEN values[c][i] ELSE <<>>]]

\* expand_rows(df): pd.DataFrame(expanded_rows)
expand_rows(df) ==
  LET RECURSIVE expanded(_)
      expanded(k) == IF k > Len(df.rows) THEN <<>>
                     ELSE expand_row(df.rows[k]) \o expanded(k + 1)
  IN DataFrame(expanded(1))

\* combine_groups(all_group_dfs): all_group_dfs is a list of
\* [fname |-> file name, gdict |-> group name -> table]
combine_groups(all_group_dfs) ==
  LET n == Len(all_group_dfs)
      has(k, g) == g \in DOMAIN all_group_dfs[k].gdict
                   /\ ~empty(all_group_dfs[k].gdict[g])
      names == {g \in UNION {DOMAIN all_group_dfs[k].gdict : k \in 1..n} :
                  \E k \in 1..n : has(k, g)}
      RECURSIVE frames(_, _)
      frames(g, k) ==
        IF k > n THEN <<>>
        ELSE (IF has(k, g)
              THEN <<assign(all_group_dfs[k].gdict[g], colname.SOURCE_FILE,
                            all_group_dfs[k].fname)>>
              ELSE <<>>) \o frames(g, k + 1)
  IN [g \in names |-> drop_singleton_rows(concat(frames(g, 1)))]

(* ------------------------ agsparser.py: parser ------------------------ *)

VARIABLES
  is_ags3,        \* analysis.get("AGS3") == "Yes"
  is_ags4,        \* analysis.get("AGS4") == "Yes"
  current_group,  \* None, or Some(name)
  headings,       \* the current heading list
  data_started,   \* has a data row been appended since the headings began
  group_data,     \* group name -> list of records (field -> value)
  results,        \* analyze_ags_content's flags over the lines read so far
  nlines,         \* the number of lines read so far
  line,           \* the tokens of the line read last
  pre,            \* current_group, headings, data_started, group_data before it
  repeated,       \* is that line the same as the line read before it
  pc,             \* "parse" while the loop over raw_lines runs
  group_dfs,      \* parse_ags_file's result: group name -> table
  combined,       \* combine_groups' result for the parsed file
  parse_errors,   \* the list whose length parse_ags_file reports as failed lines
  starts,         \* history: per group start so far (first: before any), the heading tokens declared under it, in order
  record_start,   \* history: group name -> per record, the start it was appended under
  source          \* the file: the lines it may hold and the most lines it has

None == <<>>

Some(x) == <<x>>

\* bool(current_group): neither None nor the empty string
HasGroup(g) == g # None /\ g[1] # <<>>

EmptyMap == [x \in {} |-> <<>>]

normalize_token(token) == upper(lstrip(strip(strip(token, WS), {"\""}), {BOM}))

ensure_group(gd, name) ==
  IF name \in DOMAIN gd THEN gd
  ELSE [g \in DOMAIN gd \cup {name} |-> IF g = name THEN <<>> ELSE gd[g]]

\* analyze_ags_content, per line, on the line's first token: the stripped line
\* starts with GROUP or "GROUP" / with ** or "**
LineIsAgs4(parts) == parts # <<>> /\ startswith(parts[1], kw.GROUP)

LineIsAgs3(parts) == parts # <<>> /\ startswith(parts[1], kw.STARS)

\* merge_val overwriting the field instead of appending to it.
merge_val_overwrite(last_row, idx, val) ==
  IF idx >= Len(headings) \/ strip(val, WS) = <<>> THEN last_row
  ELSE put(last_row, headings[idx + 1], strip(val, WS))

\* _merge_val(idx, val) on the last row of the current group; idx counts from 0
merge_val(last_row, idx, val) ==
  IF idx >= Len(headings) THEN last_row
  ELSE IF strip(val, WS) = <<>> THEN last_row
  ELSE LET v == strip(val, WS)
           field == headings[idx + 1]
           prev == get(last_row, field)
           pieces == split(prev, PIPE)
           existing_parts ==
             {strip(pieces[k], WS) : k \in {j \in 1..Len(pieces) : pieces[j] # <<>>}}
       IN IF v \notin existing_parts
          THEN put(last_row, field, IF prev # <<>> THEN prev \o PIPE \o v ELSE v)
          ELSE last_row

\* heading_index with the AGS4 shift applied to both dialects.
heading_index_always_shifted(i) == i - 1

\* The heading index that token i of a <CONT> line is merged into.
heading_index(i) == IF is_ags4 THEN i - 1 ELSE i

\* merge_loop over the tokens with the blank ones filtered out first.
RECURSIVE merge_loop_compacted(_, _, _, _)
merge_loop_compacted(last_row, parts, i, expected_len) ==
  LET kept == SelectSeq(Tail(parts), LAMBDA p : strip(p, WS) # <<>>)
      compacted == <<Head(parts)>> \o kept
                   \o [k \in 1..(Len(parts) - 1 - Len(kept)) |-> <<>>]
  IN IF i >= expected_len THEN last_row
     ELSE merge_loop_compacted(merge_val(last_row, heading_index(i), compacted[i + 1]),
                               compacted, i + 1, expected_len)

\* for i in range(1, expected_len): _merge_val(heading_index, parts[i])
RECURSIVE merge_loop(_, _, _, _)
merge_loop(last_row, parts, i, expected_len) ==
  IF i >= expected_len THEN last_row
  ELSE merge_loop(merge_val(last_row, heading_index(i), parts[i + 1]),
                  parts, i + 1, expected_len)

\* append_continuation merging into the first record of the group.
append_continuation_first(parts) ==
  IF ~(HasGroup(current_group) /\ headings # <<>>
       /\ group_data[current_group[1]] # <<>>)
  THEN group_data
  ELSE LET g == current_group[1]
           expected_len == Len(headings) + 1
           padded == IF Len(parts) < expected_len
                     THEN parts \o [k \in 1..(expected_len - Len(parts)) |-> <<>>]
                     ELSE parts
           rows == group_data[g]
       IN [group_data EXCEPT
             ![g] = [rows EXCEPT ![1] = merge_loop(rows[1], padded, 1, expected_len)]]

\* append_continuation(parts): the group registry after the <CONT> line
append_continuation(parts) ==
  IF ~(HasGroup(current_group) /\ headings # <<>>
       /\ group_data[current_group[1]] # <<>>)
  THEN group_data
  ELSE LET g == current_group[1]
           expected_len == Len(headings) + 1
           padded == IF Len(parts) < expected_len
                     THEN parts \o [k \in 1..(expected_len - Len(parts)) |-> <<>>]
                     ELSE parts
           rows == group_data[g]
       IN [group_data EXCEPT
             ![g] = [rows EXCEPT
                       ![Len(rows)] = merge_loop(rows[Len(rows)], padded, 1, expected_len)]]

\* The lines a file may hold, as _split_quoted_csv returns them.
Line ==
  [L4_GROUP_TRIX |-> <<kw.GROUP, txt.TRIX>>,
   L4_GROUP_DETL |-> <<kw.GROUP, txt.DETL>>,
   L4_HEAD_TRIX |-> <<kw.HEADING, colname.HOLE_ID, colname.SPEC_DEPTH, colname.CELL, colname.DEVF>>,
   L4_HEAD_DETL |-> <<kw.HEADING, colname.HOLE_ID, txt.DETL_DESC>>,
   L4_DATA_TRIX |-> <<kw.DATA, txt.BH1, txt.v5_0, txt.v100, txt.v50>>,
   L4_DATA_DETL |-> <<kw.DATA, txt.BH1, txt.Sandy_clay>>,
   L4_DATA_HOLE |-> <<kw.DATA, txt.BH1, txt.empty>>,
   L3_GROUP_DETL |-> <<txt.xxDETL>>,
   L3_HEAD_DESC |-> <<txt.xHOLE_ID, txt.xDETL_DESC>>,
   L3_HEAD_TOP_DESC |-> <<txt.xHOLE_ID, txt.xDETL_TOP, txt.xDETL_DESC>>,
   L3_DATA_DESC |-> <<txt.BH1, txt.Sandy_clay>>,
   L3_DATA_TOP_DESC |-> <<txt.BH1, txt.v5_0, txt.Sandy_clay>>,
   L_CONT_GRAVEL |-> <<kw.CONT, txt.empty, txt.with_gravel>>,
   L_CONT_A_B |-> <<kw.CONT, txt.A_B>>,
   L_CONT_SHIFTED |-> <<txt.empty, kw.CONT, txt.A>>,
   L_UNITS |-> <<kw.UNITS, txt.m>>,
   L_UNTOKENIZED |-> <<>>,
   L4_GROUP_ALONE |-> <<kw.GROUP>>,
   L4_GROUP_EMPTY |-> <<kw.GROUP, txt.empty>>,
   L3_GROUP_EMPTY |-> <<kw.STARS>>,
   L4_HEAD_TOP |-> <<kw.HEADING, txt.DETL_TOP>>,
   L3_HEAD_TOP |-> <<txt.xDETL_TOP>>]

Lines == {Line[l] : l \in DOMAIN Line}

\* keyword = _normalize_token(parts[0]), and _normalize_token(parts[1]), for
\* every line of Lines (computed once).
Keyword == [parts \in Lines \ {<<>>} |-> normalize_token(parts[1])]

Keyword2 == [parts \in {p \in Lines : Len(p) > 1} |-> normalize_token(parts[2])]

\* The branch of the main parsing loop that a line takes.
LineKind(parts) ==
  IF parts = <<>> THEN "skip"
  ELSE LET keyword == Keyword[parts]
       IN IF keyword = kw.CONT THEN "cont"
          ELSE IF keyword = <<>> /\ Len(parts) > 1
                  /\ Keyword2[parts] = kw.CONT THEN "cont_shifted"
          ELSE IF keyword \in {kw.UNITS, kw.UNIT, kw.UNIT_B} THEN "unit"
          ELSE IF is_ags4
               THEN IF keyword = kw.GROUP THEN "group4"
                    ELSE IF keyword = kw.HEADING THEN "heading4"
                    ELSE IF keyword = kw.DATA THEN "data4"
                    ELSE "none"
          ELSE IF is_ags3
               THEN IF startswith(keyword, kw.STARS) THEN "group3"
                    ELSE IF startswith(keyword, <<"*">>) THEN "heading3"
                    ELSE IF HasGroup(current_group) /\ headings # <<>> THEN "data3"
                    ELSE "none"
          ELSE "none"

\* The flags were computed from the whole file before the loop began: a line
\* read by the loop (all are among the first 50) cannot trip a flag that is off.
FlagsAllow(parts) ==
  /\ LineIsAgs4(parts) => is_ags4
  /\ LineIsAgs3(parts) => is_ags3

\* Heading names are distinct within a group (the files the model reads).
Distinct(h) == \A i, j \in 1..Len(h) : i # j => h[i] # h[j]

Snapshot ==
  [current_group |-> current_group, headings |-> headings,
   data_started |-> data_started, group_data |-> group_data]

\* One iteration of "for i, line in enumerate(raw_lines)".
Reads(parts, kind) ==
  /\ pc = "parse"
  /\ nlines < source.length
  /\ parts \in source.lines
  /\ FlagsAllow(parts)
  /\ LineKind(parts) = kind
  /\ results' = [AGS3 |-> results.AGS3 \/ LineIsAgs3(parts),
                 AGS4 |-> results.AGS4 \/ LineIsAgs4(parts)]
  /\ nlines' = nlines + 1
  /\ line' = parts
  /\ repeated' = (nlines > 0 /\ parts = line)
  /\ pre' = Snapshot
  /\ UNCHANGED <<is_ags3, is_ags4, pc, group_dfs, combined, parse_errors, source, call_vars>>

\* if not parts: continue; parts is empty when the tokenizer could not
\* tokenize the line (blank lines are skipped before it is called)
SkipLine ==
  \E parts \in Lines :
    /\ Reads(parts, "skip")
    /\ UNCHANGED <<current_group, headings, data_started, group_data, starts, record_start>>

\* if keyword == "<CONT>": append_continuation(parts)
Continuation ==
  \E parts \in Lines :
    /\ Reads(parts, "cont")
    /\ group_data' = append_continuation(parts)
    /\ UNCHANGED <<current_group, headings, data_started, starts, record_start>>

\* <CONT> in column 1 after an empty column 0: parts = parts[1:]
ShiftedContinuation ==
  \E parts \in Lines :
    /\ Reads(parts, "cont_shifted")
    /\ group_data' = append_continuation(Tail(parts))
    /\ UNCHANGED <<current_group, headings, data_started, starts, record_start>>

\* if keyword in ["<UNITS>", "UNIT", "<UNIT>"]: continue
UnitLine ==
  \E parts \in Lines :
    /\ Reads(parts, "unit")
    /\ UNCHANGED <<current_group, headings, data_started, group_data, starts, record_start>>

\* Ags4Group leaving the heading list and the flag as they are.
Ags4GroupKeepsHeadings ==
  \E parts \in Lines :
    /\ Reads(parts, "group4")
    /\ IF Len(parts) > 1
       THEN /\ current_group' = Some(parts[2])
            /\ group_data' = ensure_group(group_data, parts[2])
            /\ starts' = Append(starts, <<>>)
            /\ record_start' = ensure_group(record_start, parts[2])
            /\ UNCHANGED <<headings, data_started>>
       ELSE UNCHANGED <<current_group, headings, data_started, group_data, starts, record_start>>

\* AGS4: keyword == "GROUP"
Ags4Group ==
  \E parts \in Lines :
    /\ Reads(parts, "group4")
    /\ IF Len(parts) > 1
       THEN /\ current_group' = Some(parts[2])
            /\ group_data' = ensure_group(group_data, parts[2])
            /\ headings' = <<>>
            /\ data_started' = FALSE
            /\ starts' = Append(starts, <<>>)
            /\ record_start' = ensure_group(record_start, parts[2])
       ELSE UNCHANGED <<current_group, headings, data_started, group_data, starts, record_start>>

\* extend_headings replacing the heading list whatever the state.
replace_headings(new_headings) == new_headings

\* The heading list after a heading line that declares new_headings.
extend_headings(new_headings) ==
  IF ~data_started /\ headings # <<>> THEN headings \o new_headings
  ELSE new_headings

\* AGS4: keyword == "HEADING"
Ags4Heading ==
  \E parts \in Lines :
    /\ Reads(parts, "heading4")
    /\ headings' = extend_headings(Tail(parts))
    /\ Distinct(headings')
    /\ starts' = [starts EXCEPT ![Len(starts)] = @ \o Tail(parts)]
    /\ UNCHANGED <<current_group, data_started, group_data, record_start>>

\* data_row4 zipping from the DATA keyword itself: dict(zip(headings, parts))
data_row4_from_keyword(parts) == zip_dict(headings, parts)

\* The record of an AGS4 DATA line: dict(zip(headings, parts[1:]))
data_row4(parts) == zip_dict(headings, Tail(parts))

\* Ags4Data appending whenever a group is current, headings or not.
Ags4DataWithoutHeadings ==
  \E parts \in Lines :
    /\ Reads(parts, "data4")
    /\ IF HasGroup(current_group)
       THEN /\ data_started' = TRUE
            /\ group_data' = [group_data EXCEPT
                 ![current_group[1]] = Append(@, data_row4(parts))]
            /\ record_start' = [record_start EXCEPT
                 ![current_group[1]] = Append(@, Len(starts))]
            /\ UNCHANGED <<current_group, headings, starts>>
       ELSE UNCHANGED <<current_group, headings, data_started, group_data, starts, record_start>>

\* AGS4: keyword == "DATA"
Ags4Data ==
  \E parts \in Lines :
    /\ Reads(parts, "data4")
    /\ IF HasGroup(current_group) /\ headings # <<>>
       THEN /\ data_started' = TRUE
            /\ group_data' = [group_data EXCEPT
                 ![current_group[1]] = Append(@, data_row4(parts))]
            /\ record_start' = [record_start EXCEPT
                 ![current_group[1]] = Append(@, Len(starts))]
            /\ UNCHANGED <<current_group, headings, starts>>
       ELSE UNCHANGED <<current_group, headings, data_started, group_data, starts, record_start>>

\* AGS3: keyword.startswith("**")
Ags3Group ==
  \E parts \in Lines :
    /\ Reads(parts, "group3")
    /\ LET name == SubSeq(normalize_token(parts[1]), 3, Len(normalize_token(parts[1])))
       IN /\ current_group' = Some(name)
          /\ group_data' = ensure_group(group_data, name)
          /\ record_start' = ensure_group(record_start, name)
    /\ headings' = <<>>
    /\ data_started' = FALSE
    /\ starts' = Append(starts, <<>>)

\* [p.lstrip("*") for p in parts if p.strip()]
star_headings(parts) ==
  LET kept == SelectSeqIdx(parts, [k \in 1..Len(parts) |-> strip(parts[k], WS) # <<>>])
  IN [k \in 1..Len(kept) |-> lstrip(kept[k], {"*"})]

\* AGS3: keyword.startswith("*")
Ags3Heading ==
  \E parts \in Lines :
    /\ Reads(parts, "heading3")
    /\ headings' = extend_headings(star_headings(parts))
    /\ Distinct(headings')
    /\ starts' = [starts EXCEPT ![Len(starts)] = @ \o star_headings(parts)]
    /\ UNCHANGED <<current_group, data_started, group_data, record_start>>

\* The record of an AGS3 data line: dict(zip(headings, parts[:len(headings)]))
data_row3(parts) == zip_dict(headings, SubSeq(parts, 1, Min(Len(parts), Len(headings))))

\* AGS3: any other line while a group and headings are established
Ags3Data ==
  \E parts \in Lines :
    /\ Reads(parts, "data3")
    /\ data_started' = TRUE
    /\ group_data' = [group_data EXCEPT
         ![current_group[1]] = Append(@, data_row3(parts))]
    /\ record_start' = [record_start EXCEPT
         ![current_group[1]] = Append(@, Len(starts))]
    /\ UNCHANGED <<current_group, headings, starts>>

\* A line that no branch of the loop takes.
UnmatchedLine ==
  \E parts \in Lines :
    /\ Reads(parts, "none")
    /\ UNCHANGED <<current_group, headings, data_started, group_data, starts, record_start>>

\* df.rename(columns=rename_map) for one column name
rename_column(c) ==
  CASE c = <<"?","E","T","H">> -> <<"W","E","T","H">>
    [] c = <<"?","E","T","H","_","T","O","P">> -> <<"W","E","T","H","_","T","O","P">>
    [] c = <<"?","E","T","H","_","B","A","S","E">> -> <<"W","E","T","H","_","B","A","S","E">>
    [] c = <<"?","E","T","H","_","G","R","A","D">> -> <<"W","E","T","H","_","G","R","A","D">>
    [] c = <<"?","L","E","G","D">> -> <<"L","E","G","D">>
    [] c = <<"?","H","O","R","N">> -> <<"H","O","R","N">>
    [] OTHER -> c

\* Step 6 of parse_ags_file for one group's rows.
group_frame(rows, file_name) ==
  LET df == DataFrame(rows)
      renamed == [cols |-> {rename_column(c) : c \in df.cols},
                  rows |-> [i \in 1..Len(df.rows) |->
                     [c \in {rename_column(d) : d \in df.cols} |->
                        df.rows[i][CHOOSE d \in df.cols : rename_column(d) = c]]]]
  IN IF empty(df) THEN df ELSE assign(renamed, colname.SOURCE_FILE, file_name)

\* The file has been read: its flags are those of the lines it holds, and
\* every group's rows become a table tagged with the file name.
BuildFrames ==
  /\ pc = "parse"
  /\ results = [AGS3 |-> is_ags3, AGS4 |-> is_ags4]
  /\ pc' = "built"
  /\ group_dfs' = [g \in DOMAIN group_data |-> group_frame(group_data[g], txt.f1)]
  /\ UNCHANGED <<is_ags3, is_ags4, current_group, headings, data_started,
                 group_data, results, nlines, line, pre, repeated, combined,
                 parse_errors, starts, record_start, source, call_vars>>

\* combined_groups = combine_groups(all_group_dfs), for the one file parsed
CombineGroups ==
  /\ pc = "built"
  /\ pc' = "combined"
  /\ combined' = combine_groups(<<[fname |-> txt.f1, gdict |-> group_dfs]>>)
  /\ UNCHANGED <<is_ags3, is_ags4, current_group, headings, data_started,
                 group_data, results, nlines, line, pre, repeated, group_dfs,
                 parse_errors, starts, record_start, source, call_vars>>

parser_vars ==
  <<is_ags3, is_ags4, current_group, headings, data_started, group_data,
    results, nlines, line, pre, repeated, pc, group_dfs, combined, parse_errors,
    starts, record_start, source>>

vars == <<parser_vars, call_vars>>

\* No table function is called while a file is parsed.
NoCall == op = "" /\ args = <<>> /\ ret = <<>> /\ ret2 = <<>>


\* The state in which the main parsing loop begins.
LoopStart ==
  /\ current_group = None
  /\ headings = <<>>
  /\ data_started = FALSE
  /\ group_data = EmptyMap
  /\ results = [AGS3 |-> FALSE, AGS4 |-> FALSE]
  /\ nlines = 0
  /\ line = <<>>
  /\ repeated = FALSE
  /\ pre = [current_group |-> None, headings |-> <<>>,
            data_started |-> FALSE, group_data |-> EmptyMap]
  /\ pc = "parse"
  /\ group_dfs = EmptyMap
  /\ combined = EmptyMap
  /\ parse_errors = <<>>
  /\ starts = <<<<>>>>
  /\ record_start = EmptyMap
  /\ NoCall

\* Files of up to MaxLines lines, in either dialect, both or none, without
\* nameless group starts and one-token heading lines.
InitParser ==
  /\ is_ags3 \in BOOLEAN
  /\ is_ags4 \in BOOLEAN
  /\ LoopStart
  /\ source = [lines |-> Lines \ {Line.L4_GROUP_ALONE, Line.L4_GROUP_EMPTY,
                                   Line.L3_GROUP_EMPTY, Line.L4_HEAD_TOP,
                                   Line.L3_HEAD_TOP},
               length |-> MaxLines]

NextParser ==
  \/ SkipLine
  \/ Continuation
  \/ ShiftedContinuation
  \/ UnitLine
  \/ Ags4Group
  \/ Ags4Heading
  \/ Ags4Data
  \/ Ags3Group
  \/ Ags3Heading
  \/ Ags3Data
  \/ UnmatchedLine
  \/ BuildFrames
  \/ CombineGroups

SpecParser == InitParser /\ [][NextParser]_vars

\* Files of one dialect, of up to MaxLines lines, with group starts with and
\* without a name and headings split over lines.
InitHeadings ==
  /\ is_ags3 \in BOOLEAN
  /\ is_ags4 = ~is_ags3
  /\ LoopStart
  /\ source = [lines |-> IF is_ags4
                         THEN {Line.L4_GROUP_TRIX, Line.L4_GROUP_ALONE,
                               Line.L4_GROUP_EMPTY, Line.L4_HEAD_DETL,
                               Line.L4_HEAD_TOP, Line.L4_DATA_TRIX}
                         ELSE {Line.L3_GROUP_DETL, Line.L3_GROUP_EMPTY,
                               Line.L3_HEAD_DESC, Line.L3_HEAD_TOP,
                               Line.L3_DATA_TOP_DESC},
               length |-> MaxLines]

NextHeadings ==
  \/ Ags4Group
  \/ Ags4Heading
  \/ Ags4Data
  \/ Ags3Group
  \/ Ags3Heading
  \/ Ags3Data
  \/ UnmatchedLine

SpecHeadings == InitHeadings /\ [][NextHeadings]_vars

\* Files of one dialect, of up to MaxRestartLines lines, in which a group
\* may be started again after it received records.
InitRestart ==
  /\ is_ags3 \in BOOLEAN
  /\ is_ags4 = ~is_ags3
  /\ LoopStart
  /\ source = [lines |-> IF is_ags4
                         THEN {Line.L4_GROUP_TRIX, Line.L4_HEAD_TRIX,
                               Line.L4_HEAD_DETL, Line.L4_DATA_TRIX,
                               Line.L_CONT_GRAVEL}
                         ELSE {Line.L3_GROUP_DETL, Line.L3_HEAD_DESC,
                               Line.L3_HEAD_TOP_DESC, Line.L3_DATA_DESC,
                               Line.L_CONT_A_B},
               length |-> MaxRestartLines]

NextRestart ==
  \/ Continuation
  \/ Ags4Group
  \/ Ags4Heading
  \/ Ags4Data
  \/ Ags3Group
  \/ Ags3Heading
  \/ Ags3Data

SpecRestart == InitRestart /\ [][NextRestart]_vars

\* No file is parsed while a table function is called.
ParserIdle ==
  /\ is_ags3 = FALSE
  /\ is_ags4 = FALSE
  /\ current_group = None
  /\ headings = <<>>
  /\ data_started = FALSE
  /\ group_data = EmptyMap
  /\ results = [AGS3 |-> FALSE, AGS4 |-> FALSE]
  /\ nlines = 0
  /\ line = <<>>
  /\ repeated = FALSE
  /\ pre = [current_group |-> None, headings |-> <<>>,
            data_started |-> FALSE, group_data |-> EmptyMap]
  /\ pc = "idle"
  /\ group_dfs = EmptyMap
  /\ combined = EmptyMap
  /\ parse_errors = <<>>
  /\ starts = <<<<>>>>
  /\ record_start = EmptyMap
  /\ source = [lines |-> {}, length |-> 0]

(* --------------------- cleaners.py: the row cleaners -------------------- *)

\* The columns of the table handed to a row cleaner.
CleanerCols == {colname.HOLE_ID, txt.DETL_DESC, txt.DETL_TOP}

\* The cells a row of that table is drawn from, column by column: null,
\* empty and whitespace-only cells, single values, and " | " joined values
\* that repeat one value or hold two.
CleanerCells ==
  (colname.HOLE_ID :> {NaN, txt.BH1, txt.A_A})
  @@ (txt.DETL_DESC :> {txt.empty, txt.A, txt.A_A, txt.A_B})
  @@ (txt.DETL_TOP :> {txt.space, txt.v5_0, txt.B_B})

CleanerRows == {r \in [CleanerCols -> UNION {CleanerCells[c] : c \in CleanerCols}] :
                  \A c \in CleanerCols : r[c] \in CleanerCells[c]}

CleanerTables ==
  {[cols |-> CleanerCols, rows |-> rs] :
     rs \in UNION {[1..n -> CleanerRows] : n \in 0..MaxRows}}

\* drop_singleton_rows(df)
DropSingletonRows ==
  /\ op = ""
  /\ op' = "drop_singleton_rows"
  /\ ret' = drop_singleton_rows(args)
  /\ UNCHANGED <<args, ret2, parser_vars>>

\* expand_rows(df)
ExpandRows ==
  /\ op = ""
  /\ op' = "expand_rows"
  /\ ret' = expand_rows(args)
  /\ UNCHANGED <<args, ret2, parser_vars>>

InitCleaners ==
  /\ ParserIdle
  /\ op = ""
  /\ args \in CleanerTables
  /\ ret = <<>>
  /\ ret2 = <<>>

NextCleaners ==
  \/ DropSingletonRows
  \/ ExpandRows

SpecCleaners == InitCleaners /\ [][NextCleaners]_vars

(* ----------------------- the lithology mappers ------------------------- *)

\* A specimen is [HOLE_ID |-> a string or NaN, SPEC_DEPTH |-> None or
\* Some(depth)]; the GIU table is the list of its intervals with both depths
\* known, [HOLE_ID, DEPTH_FROM, DEPTH_TO, LITHOLOGY], in table order.

\* triaxial.py, map_litho(row) over giu_by_hole: the label of the first
\* interval of the hole that contains the depth.
map_litho(row, giu) ==
  LET hole == row.HOLE_ID
      depth == row.SPEC_DEPTH
  IN IF hole = NaN \/ depth = None THEN NaN
     ELSE LET giu_rows == SelectSeq(giu, LAMBDA g : g.HOLE_ID = hole)
              d == depth[1]
              match == SelectSeq(giu_rows,
                                 LAMBDA g : g.DEPTH_FROM <= d /\ g.DEPTH_TO >= d)
          IN IF giu_rows = <<>> THEN NaN
             ELSE IF match # <<>> THEN match[1].LITHOLOGY ELSE NaN

\* tightest["DEPTH_FROM"].idxmax(): the first position of the largest value
idxmax_depth_from(tightest) ==
  CHOOSE i \in 1..Len(tightest) :
    /\ \A j \in 1..Len(tightest) : tightest[j].DEPTH_FROM <= tightest[i].DEPTH_FROM
    /\ \A j \in 1..(i - 1) : tightest[j].DEPTH_FROM < tightest[i].DEPTH_FROM

\* MAINcode.py, map_lithology(tri_df, giu_df) for one row of tri_df
\* (the label column, LITH there, is the field LITHOLOGY of an interval)
map_lithology(row, giu_df) ==
  LET hole == row.HOLE_ID
  IN IF giu_df = <<>> THEN NaN
     ELSE IF hole = NaN THEN NaN
     ELSE LET ggrp == SelectSeq(giu_df, LAMBDA g : g.HOLE_ID = hole)
          IN IF ggrp = <<>> THEN NaN
             ELSE IF row.SPEC_DEPTH = None THEN NaN
             ELSE LET d == row.SPEC_DEPTH[1]
                      cand == SelectSeq(ggrp,
                                        LAMBDA g : g.DEPTH_FROM <= d /\ d <= g.DEPTH_TO)
                      span(g) == g.DEPTH_TO - g.DEPTH_FROM
                      min_span == CHOOSE m \in {span(cand[k]) : k \in 1..Len(cand)} :
                                    \A k \in 1..Len(cand) : m <= span(cand[k])
                      tightest == SelectSeq(cand, LAMBDA g : span(g) = min_span)
                      i == IF Len(tightest) > 1 THEN idxmax_depth_from(tightest) ELSE 1
                  IN IF cand = <<>> THEN NaN ELSE tightest[i].LITHOLOGY

\* The depths of specimens and interval ends.
Depths == 0..2

Intervals ==
  {[HOLE_ID |-> h, DEPTH_FROM |-> a, DEPTH_TO |-> b, LITHOLOGY |-> l] :
     h \in {txt.BH1, txt.BH2}, a \in Depths, b \in Depths, l \in {txt.CLAY, txt.SAND}}

\* GIU tables with DEPTH_FROM <= DEPTH_TO in every interval.
GiuTables ==
  UNION {[1..n -> {g \in Intervals : g.DEPTH_FROM <= g.DEPTH_TO}] : n \in 0..MaxIntervals}

Specimens ==
  [HOLE_ID : {txt.BH1, NaN}, SPEC_DEPTH : {None} \cup {Some(d) : d \in Depths}]

\* triaxial_df.apply(map_litho, axis=1), one row
MapLitho ==
  /\ op = ""
  /\ op' = "map_litho"
  /\ ret' = map_litho(args.row, args.giu)
  /\ UNCHANGED <<args, ret2, parser_vars>>

\* map_lithology(tri_df, giu_df), one row
MapLithology ==
  /\ op = ""
  /\ op' = "map_lithology"
  /\ ret' = map_lithology(args.row, args.giu)
  /\ UNCHANGED <<args, ret2, parser_vars>>

InitLitho ==
  /\ ParserIdle
  /\ op = ""
  /\ args \in [row : Specimens, giu : GiuTables]
  /\ ret = <<>>
  /\ ret2 = <<>>

NextLitho ==
  \/ MapLitho
  \/ MapLithology

SpecLitho == InitLitho /\ [][NextLitho]_vars

(* ------------------ triaxial.py: remove_duplicate_tests ----------------- *)

\* A cell of a float column is None (NaN) or Some(x), x the value in
\* thousandths; a cell of a text column is a string or NaN.

key_cols ==
  <<colname.HOLE_ID, colname.SPEC_DEPTH, colname.CELL, colname.DEVF, colname.PWPF, colname.TEST_TYPE, colname.SOURCE_FILE>>

available_cols(df) == SelectSeq(key_cols, LAMBDA col : col \in df.cols)

\* pd.api.types.is_float_dtype: the numeric columns, which to_numeric made float64
is_float_dtype(col) == col \in {colname.SPEC_DEPTH, colname.CELL, colname.DEVF, colname.PWPF}

DigitChar == <<"0", "1", "2", "3", "4", "5", "6", "7", "8", "9">>

\* str(n) for a natural number n
RECURSIVE str_nat(_)
str_nat(n) == IF n < 10 THEN <<DigitChar[n + 1]>>
              ELSE str_nat(n \div 10) \o <<DigitChar[(n % 10) + 1]>>

\* f"{x:.2f}" for x >= 0 given in thousandths, not half way between two
\* hundredths
format_2f(x) ==
  LET h == (x + 5) \div 10
  IN str_nat(h \div 100) \o DOT
     \o <<DigitChar[((h \div 10) % 10) + 1], DigitChar[(h % 10) + 1]>>

\* astype(str) of a text cell
astype_str(cell) == IF cell = NaN THEN s_nan ELSE cell

\* The string temp_df holds for one key cell.
key_text(col, cell) ==
  IF is_float_dtype(col)
  THEN (IF cell = None THEN <<>> ELSE format_2f(cell[1]))
  ELSE astype_str(cell)

\* temp_df['combined'] of one row: '|'.join(row.values)
combined_key(df, row) ==
  LET cols == available_cols(df)
  IN join([k \in 1..Len(cols) |-> key_text(cols[k], row[cols[k]])], BAR)

\* duplicated that looks at the row before only
duplicated_adjacent(keys, i) == i > 1 /\ keys[i - 1] = keys[i]

\* temp_df.duplicated(subset=['combined'], keep='first') at row i
duplicated(keys, i) == \E j \in 1..(i - 1) : keys[j] = keys[i]

remove_duplicate_tests(df) ==
  IF empty(df) THEN df
  ELSE IF Len(available_cols(df)) >= 3
  THEN LET keys == [i \in 1..Len(df.rows) |-> combined_key(df, df.rows[i])]
       IN [cols |-> df.cols,
           rows |-> SelectSeqIdx(df.rows,
                                 [i \in 1..Len(df.rows) |-> ~duplicated(keys, i)])]
  ELSE df

\* The column sets of the tables handed to the duplicate remover: two key
\* columns, three text key columns, and three key columns with a float one.
DedupColSets ==
  {{colname.HOLE_ID, colname.CELL},
   {colname.HOLE_ID, colname.TEST_TYPE, colname.SOURCE_FILE},
   {colname.HOLE_ID, colname.CELL, colname.SOURCE_FILE}}

\* The rows on the columns cols: HOLE_ID and TEST_TYPE with and without a
\* '|', one SOURCE_FILE, CELL 100.001, 100.004, 100.006 or NaN.
DedupRows(cols) ==
  {[c \in cols |-> IF c = colname.HOLE_ID THEN h
                   ELSE IF c = colname.TEST_TYPE THEN t
                   ELSE IF c = colname.SOURCE_FILE THEN txt.f
                   ELSE x] :
     h \in {txt.A, txt.A_bar_B}, t \in {txt.C, txt.B_bar_C},
     x \in {None, Some(100001), Some(100004), Some(100006)}}

DedupTables ==
  UNION {{[cols |-> cols, rows |-> rs] :
            rs \in UNION {[1..n -> DedupRows(cols)] : n \in 0..MaxTests}} :
         cols \in DedupColSets}

\* remove_duplicate_tests(df)
RemoveDuplicateTests ==
  /\ op = ""
  /\ op' = "remove_duplicate_tests"
  /\ ret' = remove_duplicate_tests(args)
  /\ UNCHANGED <<args, ret2, parser_vars>>

\* remove_duplicate_tests called on its own result
RemoveDuplicateTestsAgain ==
  /\ op = "remove_duplicate_tests"
  /\ op' = "remove_duplicate_tests twice"
  /\ ret2' = remove_duplicate_tests(ret)
  /\ UNCHANGED <<args, ret, parser_vars>>

InitDedup ==
  /\ ParserIdle
  /\ op = ""
  /\ args \in DedupTables
  /\ ret = <<>>
  /\ ret2 = <<>>

NextDedup ==
  \/ RemoveDuplicateTests
  \/ RemoveDuplicateTestsAgain

SpecDedup == InitDedup /\ [][NextDedup]_vars

(* ------------------- triaxial.py: calculate_s_t_values ------------------ *)

\* Numbers are integers in a unit in which every operand is even, so that
\* halving is exact: the tables of StressTables hold x as 2x, the tables of
\* the pipeline hold thousandths.  A numeric cell is None (NaN) or Some(n).

\* The column names of calculate_s_t_values.
col ==
  [TRIX_CELL |-> <<"T","R","I","X","_","C","E","L","L">>,
   TRET_CELL |-> <<"T","R","E","T","_","C","E","L","L">>,
   TRIX_DEVF |-> <<"T","R","I","X","_","D","E","V","F">>,
   TRET_DEVF |-> <<"T","R","E","T","_","D","E","V","F">>,
   TRIX_PWPF |-> <<"T","R","I","X","_","P","W","P","F">>,
   TRET_PWPF |-> <<"T","R","E","T","_","P","W","P","F">>,
   SIGMA_1 |-> <<"S","I","G","M","A","_","1">>,
   SIGMA_3 |-> <<"S","I","G","M","A","_","3">>,
   SIGMA_1_EFF |-> <<"S","I","G","M","A","_","1","_","E","F","F">>,
   SIGMA_3_EFF |-> <<"S","I","G","M","A","_","3","_","E","F","F">>,
   s_total |-> <<"s","_","t","o","t","a","l">>,
   s_effective |-> <<"s","_","e","f","f","e","c","t","i","v","e">>,
   s |-> <<"s">>,
   s_source |-> <<"s","_","s","o","u","r","c","e">>,
   t |-> <<"t">>,
   valid |-> <<"v","a","l","i","d">>,
   LITH |-> <<"L","I","T","H">>,
   LITHOLOGY |-> <<"L","I","T","H","O","L","O","G","Y">>]

\* a + b and a - b of two cells: NaN when either is NaN
add(a, b) == IF a = None \/ b = None THEN None ELSE Some(a[1] + b[1])

sub(a, b) == IF a = None \/ b = None THEN None ELSE Some(a[1] - b[1])

\* 0.5 * a without the halving
half_whole(a) == a

\* 0.5 * a
half(a) == IF a = None THEN None ELSE Some(a[1] \div 2)

\* np.isfinite of a cell
isfinite(a) == a # None

\* The candidates of the three _coalesce calls, by target.
candidates ==
  (colname.CELL :> <<col.TRIX_CELL, col.TRET_CELL, colname.CELL>>)
  @@ (colname.DEVF :> <<col.TRIX_DEVF, col.TRET_DEVF, colname.DEVF>>)
  @@ (colname.PWPF :> <<col.TRIX_PWPF, col.TRET_PWPF, colname.PWPF>>)

\* The columns after the three _coalesce calls: a target exists when one of
\* its candidates does.
coalesced_cols(cols) ==
  cols \cup {target \in DOMAIN candidates : Range(candidates[target]) \cap cols # {}}

\* _coalesce(src_df, cands, target) on one row whose columns are cols: the
\* target cell is combined first with every candidate that exists, in order.
RECURSIVE coalesce_row(_, _, _, _, _)
coalesce_row(row, cols, cands, target, has_target) ==
  IF cands = <<>> THEN row
  ELSE LET c == Head(cands)
       IN IF c \in cols
          THEN coalesce_row(put(row, target,
                                IF has_target /\ row[target] # None
                                THEN row[target] ELSE row[c]),
                            cols, Tail(cands), target, TRUE)
          ELSE coalesce_row(row, cols, Tail(cands), target, has_target)

\* The three _coalesce calls on one row.
coalesce3(row, cols) ==
  LET a == coalesce_row(row, cols, candidates[colname.CELL], colname.CELL, colname.CELL \in cols)
      b == coalesce_row(a, cols, candidates[colname.DEVF], colname.DEVF, colname.DEVF \in cols)
  IN coalesce_row(b, cols, candidates[colname.PWPF], colname.PWPF, colname.PWPF \in cols)

\* df.get(name, default) for one row
df_get(row, cols, name, default) == IF name \in cols THEN row[name] ELSE default

\* The columns of the result, in out_cols: the merge keys and extras that
\* exist and the computed columns.
out_cols(cols) ==
  (cols \cap {colname.HOLE_ID, colname.SPEC_DEPTH, colname.CELL, colname.PWPF, colname.DEVF})
  \cup {col.SIGMA_1, col.SIGMA_3, col.SIGMA_1_EFF, col.SIGMA_3_EFF,
        col.s_total, col.s_effective, col.s, col.s_source, col.t, col.valid}
  \cup (cols \cap {colname.TEST_TYPE, colname.SOURCE_FILE, col.LITH})

\* The row of the result for one row of df; PWPF exists.
s_t_row(row0, cols0) ==
  LET row == coalesce3(row0, cols0)
      cols == coalesced_cols(cols0)
      SIGMA_1 == add(df_get(row, cols, colname.DEVF, Some(0)), df_get(row, cols, colname.CELL, Some(0)))
      SIGMA_3 == df_get(row, cols, colname.CELL, Some(0))
      PWPF == df_get(row, cols, colname.PWPF, None)
      SIGMA_1_EFF == sub(SIGMA_1, PWPF)
      SIGMA_3_EFF == sub(SIGMA_3, PWPF)
      s_total == half(add(SIGMA_1, SIGMA_3))
      s_effective == half(add(SIGMA_1_EFF, SIGMA_3_EFF))
      t == half(sub(SIGMA_1, SIGMA_3))
      has_eff == isfinite(SIGMA_1_EFF) /\ isfinite(SIGMA_3_EFF)
      s == IF has_eff THEN s_effective ELSE s_total
      s_source == IF has_eff THEN "effective" ELSE "total"
      valid == isfinite(s) /\ isfinite(t)
      computed ==
        (col.SIGMA_1 :> SIGMA_1) @@ (col.SIGMA_3 :> SIGMA_3)
        @@ (col.SIGMA_1_EFF :> SIGMA_1_EFF) @@ (col.SIGMA_3_EFF :> SIGMA_3_EFF)
        @@ (col.s_total :> s_total) @@ (col.s_effective :> s_effective)
        @@ (col.s :> s) @@ (col.s_source :> s_source) @@ (col.t :> t)
        @@ (col.valid :> valid)
  IN [c \in out_cols(cols) |-> IF c \in DOMAIN computed THEN computed[c] ELSE row[c]]

\* What df["SIGMA_1"] - df.get("PWPF") does when no PWPF column exists and
\* df.get returns None: pandas raises TypeError for a float column minus
\* None, or the difference is all NaN.
MinusNone == {"TypeError", "NaN"}

\* A call that raised.
Raised(exception) == [cols |-> {}, rows |-> <<>>, raised |-> exception]

\* calculate_s_t_values(df); minus_none is the outcome of the subtraction of
\* None if it happens.
calculate_s_t_values(df, minus_none) ==
  LET cols == coalesced_cols(df.cols)
  IN IF colname.PWPF \notin cols /\ minus_none = "TypeError" THEN Raised("TypeError")
     ELSE [cols |-> out_cols(cols),
           rows |-> [i \in 1..Len(df.rows) |-> s_t_row(df.rows[i], df.cols)]]

\* The tables handed to calculate_s_t_values: any of CELL, DEVF, PWPF may be
\* missing as a column or null in a row; CELL is 100, DEVF 50 or 51, PWPF 20.
StressRows(cols) ==
  {[c \in cols |-> IF c = colname.CELL THEN x
                   ELSE IF c = colname.DEVF THEN y
                   ELSE z] :
     x \in {None, Some(200)}, y \in {None, Some(100), Some(102)},
     z \in {None, Some(40)}}

StressTables ==
  UNION {{[cols |-> cols, rows |-> rs] :
            rs \in UNION {[1..n -> StressRows(cols)] : n \in 0..MaxRows}} :
         cols \in SUBSET {colname.CELL, colname.DEVF, colname.PWPF}}

\* calculate_s_t_values(df)
CalculateSTValues ==
  /\ op = ""
  /\ op' = "calculate_s_t_values"
  /\ \E minus_none \in MinusNone : ret' = calculate_s_t_values(args, minus_none)
  /\ UNCHANGED <<args, ret2, parser_vars>>

InitStress ==
  /\ ParserIdle
  /\ op = ""
  /\ args \in StressTables
  /\ ret = <<>>
  /\ ret2 = <<>>

NextStress == CalculateSTValues

SpecStress == InitStress /\ [][NextStress]_vars

(* ------------------- triaxial.py: generate_triaxial_table --------------- *)

\* The group and column names of generate_triaxial_table and
\* generate_triaxial_with_lithology.
name ==
  [SAMP |-> <<"S","A","M","P">>,
   CLSS |-> <<"C","L","S","S">>,
   TRIG |-> <<"T","R","I","G">>,
   TREG |-> <<"T","R","E","G">>,
   TRET |-> <<"T","R","E","T">>,
   GIU |-> <<"G","I","U">>,
   SPEC_DPTH |-> <<"S","P","E","C","_","D","P","T","H">>,
   LOCA_ID |-> <<"L","O","C","A","_","I","D">>,
   TRIG_TYPE |-> <<"T","R","I","G","_","T","Y","P","E">>,
   TREG_TYPE |-> <<"T","R","E","G","_","T","Y","P","E">>,
   SAMP_ID |-> <<"S","A","M","P","_","I","D">>,
   SAMP_REF |-> <<"S","A","M","P","_","R","E","F">>,
   SAMP_TOP |-> <<"S","A","M","P","_","T","O","P">>,
   SPEC_REF |-> <<"S","P","E","C","_","R","E","F">>,
   SAMP_DESC |-> <<"S","A","M","P","_","D","E","S","C">>,
   SPEC_DESC |-> <<"S","P","E","C","_","D","E","S","C">>,
   GEOL_STAT |-> <<"G","E","O","L","_","S","T","A","T">>,
   DEPTH_FROM |-> <<"D","E","P","T","H","_","F","R","O","M">>,
   DEPTH_TO |-> <<"D","E","P","T","H","_","T","O">>,
   START_DEPTH |-> <<"S","T","A","R","T","_","D","E","P","T","H">>,
   END_DEPTH |-> <<"E","N","D","_","D","E","P","T","H">>,
   GEOL_DESC |-> <<"G","E","O","L","_","D","E","S","C">>,
   GEOL_GEOL |-> <<"G","E","O","L","_","G","E","O","L">>,
   GEOL_GEO2 |-> <<"G","E","O","L","_","G","E","O","2">>,
   suffix_CLSS |-> <<"_","C","L","S","S">>]

\* pd.to_numeric(cell, errors="coerce") of a text cell, for unsigned decimal
\* texts with at most three decimals: the number in thousandths, or NaN.
to_numeric(cell) ==
  IF cell = NaN THEN None
  ELSE LET parts == split(strip(cell, WS), DOT)
           is_digits(s) == Len(s) > 0 /\ \A i \in 1..Len(s) : s[i] \in Range(DigitChar)
           digit(c) == CHOOSE d \in 0..9 : DigitChar[d + 1] = c
           RECURSIVE nat_of(_)
           nat_of(s) == IF s = <<>> THEN 0
                        ELSE 10 * nat_of(SubSeq(s, 1, Len(s) - 1)) + digit(s[Len(s)])
           pad3(s) == IF Len(s) = 1 THEN s \o <<"0", "0">>
                      ELSE IF Len(s) = 2 THEN s \o <<"0">> ELSE s
       IN IF Len(parts) = 1 /\ is_digits(parts[1])
          THEN Some(1000 * nat_of(parts[1]))
          ELSE IF /\ Len(parts) = 2
                  /\ is_digits(parts[1])
                  /\ is_digits(parts[2])
                  /\ Len(parts[2]) <= 3
          THEN Some(1000 * nat_of(parts[1]) + nat_of(pad3(parts[2])))
          ELSE None

\* str(x) of a float x >= 0 given in thousandths: "5.0", "5.25"
str_float(x) ==
  LET f == x % 1000
      frac == IF f % 100 = 0 THEN <<DigitChar[(f \div 100) + 1]>>
              ELSE IF f % 10 = 0
              THEN <<DigitChar[(f \div 100) + 1], DigitChar[((f \div 10) % 10) + 1]>>
              ELSE <<DigitChar[(f \div 100) + 1], DigitChar[((f \div 10) % 10) + 1],
                     DigitChar[(f % 10) + 1]>>
  IN str_nat(x \div 1000) \o DOT \o frac

\* deduplicate_cell(cell) of a text cell
deduplicate_cell(cell) ==
  IF cell = NaN THEN cell
  ELSE LET pieces == split(cell, PIPE)
           parts == [i \in 1..Len(pieces) |-> strip(pieces[i], WS)]
           RECURSIVE unique_parts(_, _)
           unique_parts(k, acc) ==
             IF k > Len(parts) THEN acc
             ELSE unique_parts(k + 1,
                               IF parts[k] # <<>> /\ parts[k] \notin Range(acc)
                               THEN Append(acc, parts[k]) ELSE acc)
       IN join(unique_parts(1, <<>>), PIPE)

\* coalesce_columns(df, cands, new_name): new_name becomes the first
\* candidate that exists, or a column of NaN if it does not exist either.
coalesce_columns(df, cands, new_name) ==
  LET existing == SelectSeq(cands, LAMBDA c : c \in df.cols)
  IN IF existing # <<>>
     THEN [df EXCEPT !.cols = df.cols \cup {new_name},
                     !.rows = [i \in 1..Len(df.rows) |->
                                 put(df.rows[i], new_name, df.rows[i][existing[1]])]]
     ELSE IF new_name \notin df.cols
     THEN [df EXCEPT !.cols = df.cols \cup {new_name},
                     !.rows = [i \in 1..Len(df.rows) |-> put(df.rows[i], new_name, NaN)]]
     ELSE df


\* _safe_merge(left, right, preferred_keys, suffixes=("", suffix)); a table
\* carries in `numeric` the columns that hold numbers.  The outer join lists
\* the rows of left with their matches and then the unmatched rows of right.
safe_merge(left, right, preferred_keys, suffix) ==
  LET common == SelectSeq(preferred_keys, LAMBDA k : k \in left.cols /\ k \in right.cols)
      keys == Range(common)
      is_hole(k) == upper(k) \in {colname.HOLE_ID, name.LOCA_ID}
      hole_key(cell) == LET v == strip(upper(astype_str(cell)), WS)
                        IN IF v = s_nan THEN NaN ELSE v
      normalized(df, row) ==
        [c \in df.cols |->
           IF c \notin keys THEN row[c]
           ELSE IF is_hole(c) THEN hole_key(row[c])
           ELSE IF c \in df.numeric THEN row[c]
           ELSE to_numeric(row[c])]
      numeric == left.numeric \cup {k \in keys : ~is_hole(k)}
      overlap == (left.cols \cap right.cols) \ keys
      renamed(c) == IF c \in overlap THEN c \o suffix ELSE c
      right_cols == {renamed(c) : c \in right.cols \ keys}
      origin(c) == CHOOSE o \in right.cols \ keys : renamed(o) = c
      cols == left.cols \cup right_cols
      key(row) == [k \in keys |-> row[k]]
      pair(l, r) == [c \in cols |-> IF c \in left.cols THEN l[c] ELSE r[origin(c)]]
      left_only(l) == [c \in cols |-> IF c \in left.cols THEN l[c] ELSE NaN]
      right_only(r) == [c \in cols |-> IF c \in keys THEN r[c]
                                       ELSE IF c \in right_cols THEN r[origin(c)]
                                       ELSE IF c \in numeric THEN None
                                       ELSE NaN]
      \* how="outer", over the rows L of left and R of right with their keys
      \* normalized
      outer(L, R) ==
        LET matches(l) == SelectSeq(R, LAMBDA r : key(r) = key(l))
            RECURSIVE left_rows(_)
            left_rows(i) ==
              IF i > Len(L) THEN <<>>
              ELSE (IF Len(matches(L[i])) = 0 THEN <<left_only(L[i])>>
                    ELSE [j \in 1..Len(matches(L[i])) |-> pair(L[i], matches(L[i])[j])])
                   \o left_rows(i + 1)
            unmatched == SelectSeq(R, LAMBDA r : \A i \in 1..Len(L) : key(L[i]) # key(r))
        IN left_rows(1) \o [j \in 1..Len(unmatched) |-> right_only(unmatched[j])]
      stacked == concat(<<[cols |-> left.cols, rows |-> left.rows],
                          [cols |-> right.cols, rows |-> right.rows]>>)
  IN IF "raised" \in DOMAIN left THEN left
     ELSE IF common = <<>>
     THEN [cols |-> stacked.cols, rows |-> stacked.rows, numeric |-> left.numeric]
     ELSE IF overlap # {} /\ suffix = <<>>
     THEN Raised("ValueError")   \* columns overlap but no suffix specified
     ELSE [cols |-> cols,
           rows |-> outer([i \in 1..Len(left.rows) |-> normalized(left, left.rows[i])],
                          [i \in 1..Len(right.rows) |-> normalized(right, right.rows[i])]),
           numeric |-> numeric]

\* generate_triaxial_table(groups): groups maps group names to tables
generate_triaxial_table(groups) ==
  LET group(g) == IF g \in DOMAIN groups THEN groups[g] ELSE DataFrame(<<>>)
      renamed(c) == IF upper(c) \in {name.SPEC_DPTH, colname.SPEC_DEPTH}
                    THEN colname.SPEC_DEPTH ELSE c
      normalized(df) ==
        IF empty(df) THEN df
        ELSE LET cols == {renamed(c) : c \in df.cols}
                 r == [cols |-> cols,
                       rows |-> [i \in 1..Len(df.rows) |->
                                   [c \in cols |->
                                      df.rows[i][CHOOSE o \in df.cols : renamed(o) = c]]]]
             IN IF colname.HOLE_ID \in cols THEN r ELSE assign(r, colname.HOLE_ID, NaN)
      frame(df) == [cols |-> df.cols, rows |-> df.rows, numeric |-> {}]
      select(df, keep) ==
        [df EXCEPT !.cols = df.cols \cap Range(keep),
                   !.rows = [i \in 1..Len(df.rows) |->
                               [c \in df.cols \cap Range(keep) |-> df.rows[i][c]]]]
      merge_keys(samp) == <<colname.HOLE_ID>>
                          \o (IF ~empty(samp) /\ colname.SPEC_DEPTH \in samp.cols
                              THEN <<colname.SPEC_DEPTH>> ELSE <<>>)
      \* if not df.empty: merged = _safe_merge(merged, right, keys, suffix)
      merge(merged, df, right, keys, suffix) ==
        IF ~empty(df) THEN safe_merge(merged, frame(right), keys, suffix) ELSE merged
      \* merged after the SAMP, CLSS, TRIG and TREG steps
      merged_treg(samp, clss, trig, treg, keys) ==
        merge(merge(merge(IF ~empty(samp) THEN frame(samp)
                          ELSE [cols |-> Range(keys), rows |-> <<>>, numeric |-> {}],
                          clss, clss, keys, name.suffix_CLSS),
                    trig,
                    select(trig, <<colname.HOLE_ID, colname.SPEC_DEPTH, name.TRIG_TYPE>>),
                    keys, <<>>),
              treg,
              select(treg, <<colname.HOLE_ID, colname.SPEC_DEPTH, name.TREG_TYPE>>),
              keys, <<>>)
      tri_res(trix, tret) ==
        IF ~empty(trix)
        THEN (IF ~empty(tret) THEN concat(<<trix, tret>>) ELSE trix)
        ELSE IF ~empty(tret) THEN tret ELSE DataFrame(<<>>)
      tri_keep == <<colname.HOLE_ID, colname.SPEC_DEPTH, colname.CELL, colname.DEVF, colname.PWPF, colname.SOURCE_FILE>>
      tri_coalesced(res) ==
        coalesce_columns(
          coalesce_columns(
            coalesce_columns(
              coalesce_columns(
                coalesce_columns(res, <<colname.SPEC_DEPTH, name.SPEC_DPTH>>, colname.SPEC_DEPTH),
                <<colname.HOLE_ID, name.LOCA_ID>>, colname.HOLE_ID),
              <<col.TRIX_CELL, col.TRET_CELL>>, colname.CELL),
            <<col.TRIX_DEVF, col.TRET_DEVF>>, colname.DEVF),
          <<col.TRIX_PWPF, col.TRET_PWPF>>, colname.PWPF)
      cols_pref == <<colname.HOLE_ID, name.SAMP_ID, name.SAMP_REF, name.SAMP_TOP,
                     name.SPEC_REF, colname.SPEC_DEPTH, name.SAMP_DESC, name.SPEC_DESC,
                     name.GEOL_STAT, name.TRIG_TYPE, name.TREG_TYPE,
                     colname.CELL, colname.DEVF, colname.PWPF, colname.SOURCE_FILE>>
      final_df(merged) == IF merged.cols \cap Range(cols_pref) # {}
                          THEN select(merged, cols_pref) ELSE merged
      text(numeric, c, cell) == IF c \in numeric
                                THEN (IF cell = None THEN NaN ELSE str_float(cell[1]))
                                ELSE cell
      deduplicated(df, numeric) ==
        [cols |-> df.cols,
         rows |-> [i \in 1..Len(df.rows) |->
                     [c \in df.cols |-> deduplicate_cell(text(numeric, c, df.rows[i][c]))]]]
      numeric_cols == {colname.SPEC_DEPTH, colname.CELL, colname.DEVF, colname.PWPF}
      numbers(expanded_df) ==
        [cols |-> expanded_df.cols,
         rows |-> [i \in 1..Len(expanded_df.rows) |->
                     [c \in expanded_df.cols |->
                        IF c \in numeric_cols
                        THEN to_numeric(expanded_df.rows[i][c])
                        ELSE expanded_df.rows[i][c]]]]
      \* the steps after the merges
      cleaned(merged) ==
        IF "raised" \in DOMAIN merged THEN merged
        ELSE numbers(drop_singleton_rows(expand_rows(
               deduplicated(final_df(merged), merged.numeric))))
      built(samp, res) ==
        cleaned(merge(merged_treg(samp, normalized(group(name.CLSS)),
                                  normalized(group(name.TRIG)),
                                  normalized(group(name.TREG)), merge_keys(samp)),
                      res, select(tri_coalesced(res), tri_keep),
                      <<colname.HOLE_ID, colname.SPEC_DEPTH>>, <<>>))
  IN built(normalized(group(name.SAMP)),
           tri_res(normalized(group(txt.TRIX)), normalized(group(name.TRET))))

\* generate_triaxial_with_lithology(groups); the depths of the GIU table are
\* numbers already, and a depth column that coalesce_columns had to create
\* holds no depth.
generate_triaxial_with_lithology(groups) ==
  LET giu0 == IF name.GIU \in DOMAIN groups THEN groups[name.GIU] ELSE DataFrame(<<>>)
      coalesced(giu) ==
        coalesce_columns(
          coalesce_columns(
            coalesce_columns(giu, <<name.DEPTH_FROM, name.START_DEPTH>>, name.DEPTH_FROM),
            <<name.DEPTH_TO, name.END_DEPTH>>, name.DEPTH_TO),
          <<name.GEOL_DESC, name.GEOL_GEOL, name.GEOL_GEO2>>, col.LITHOLOGY)
      has_depths == /\ {name.DEPTH_FROM, name.START_DEPTH} \cap giu0.cols # {}
                    /\ {name.DEPTH_TO, name.END_DEPTH} \cap giu0.cols # {}
      known(giu) == SelectSeq(giu.rows,
                              LAMBDA g : /\ has_depths
                                         /\ g[colname.HOLE_ID] # NaN
                                         /\ g[name.DEPTH_FROM] # None
                                         /\ g[name.DEPTH_TO] # None)
      giu_by_hole(rows) == [k \in 1..Len(rows) |->
                              [HOLE_ID |-> rows[k][colname.HOLE_ID],
                               DEPTH_FROM |-> rows[k][name.DEPTH_FROM][1],
                               DEPTH_TO |-> rows[k][name.DEPTH_TO][1],
                               LITHOLOGY |-> rows[k][col.LITHOLOGY]]]
      mapped(triaxial_df, by_hole) ==
        LET specimen(row) ==
              [HOLE_ID |-> IF colname.HOLE_ID \in triaxial_df.cols
                           THEN row[colname.HOLE_ID] ELSE NaN,
               SPEC_DEPTH |-> IF colname.SPEC_DEPTH \in triaxial_df.cols
                              THEN row[colname.SPEC_DEPTH] ELSE None]
        IN IF "raised" \in DOMAIN triaxial_df THEN triaxial_df
           ELSE IF empty(giu0) \/ colname.HOLE_ID \notin giu0.cols
           THEN assign(triaxial_df, col.LITHOLOGY, NaN)
           ELSE [cols |-> triaxial_df.cols \cup {col.LITHOLOGY},
                 rows |-> [i \in 1..Len(triaxial_df.rows) |->
                             put(triaxial_df.rows[i], col.LITHOLOGY,
                                 map_litho(specimen(triaxial_df.rows[i]), by_hole))]]
  IN mapped(generate_triaxial_table(groups), giu_by_hole(known(coalesced(giu0))))

\* The tables of one group that a registry may hold: none (the group is
\* missing), an empty table, and tables of one or two records.
GroupTables ==
  LET none == <<>>
      no_rows == <<DataFrame(<<>>)>>
      keys == (colname.HOLE_ID :> txt.BH1) @@ (colname.SPEC_DEPTH :> txt.v5_0)
      dpth == (colname.HOLE_ID :> txt.BH1) @@ (name.SPEC_DPTH :> txt.v5_0)
      one(row) == <<DataFrame(<<row>>)>>
      trix == keys @@ (col.TRIX_CELL :> txt.v100) @@ (col.TRIX_DEVF :> txt.v50)
              @@ (col.TRIX_PWPF :> txt.v20) @@ (colname.SOURCE_FILE :> txt.f1)
      giu(hole) == (colname.HOLE_ID :> hole) @@ (name.DEPTH_FROM :> Some(0))
                   @@ (name.DEPTH_TO :> Some(10000)) @@ (col.LITH :> txt.CLAY)
                   @@ (name.GEOL_DESC :> txt.CLAY)
  IN [SAMP |-> {none, no_rows,
                one(keys @@ (name.SAMP_REF :> txt.A)),
                one(keys @@ (name.SAMP_REF :> txt.A) @@ (colname.SOURCE_FILE :> txt.f1))},
      CLSS |-> {none, no_rows, one(dpth @@ (name.SPEC_DESC :> txt.CLAY))},
      TRIG |-> {none, no_rows, one(keys @@ (name.TRIG_TYPE :> txt.CU))},
      TREG |-> {none, no_rows, one(keys @@ (name.TREG_TYPE :> txt.CU))},
      TRIX |-> {none, no_rows, one(trix), <<DataFrame(<<trix, trix>>)>>},
      TRET |-> {none, no_rows,
                one((colname.HOLE_ID :> txt.BH2) @@ (colname.SPEC_DEPTH :> txt.v5_0)
                    @@ (col.TRET_CELL :> txt.v100) @@ (col.TRET_DEVF :> txt.v50)
                    @@ (colname.SOURCE_FILE :> txt.f2))},
      GIU |-> {none, one(giu(txt.BH1)), one(giu(txt.bh1))}]

\* The registries: the groups that are not missing, by name.
Registries ==
  {LET held == (name.SAMP :> samp) @@ (name.CLSS :> clss) @@ (name.TRIG :> trig)
               @@ (name.TREG :> treg) @@ (txt.TRIX :> trix) @@ (name.TRET :> tret)
               @@ (name.GIU :> giu)
   IN [g \in {h \in DOMAIN held : Len(held[h]) = 1} |-> held[g][1]] :
     samp \in GroupTables.SAMP, clss \in GroupTables.CLSS, trig \in GroupTables.TRIG,
     treg \in GroupTables.TREG, trix \in GroupTables.TRIX, tret \in GroupTables.TRET,
     giu \in GroupTables.GIU}

\* generate_triaxial_table(groups)
GenerateTriaxialTable ==
  /\ op = ""
  /\ op' = "generate_triaxial_table"
  /\ ret' = generate_triaxial_table(args)
  /\ UNCHANGED <<args, ret2, parser_vars>>

\* triaxial_df = generate_triaxial_with_lithology(combined_groups)
GenerateTriaxialWithLithology ==
  /\ op = ""
  /\ op' = "generate_triaxial_with_lithology"
  /\ ret' = generate_triaxial_with_lithology(args)
  /\ UNCHANGED <<args, ret2, parser_vars>>

\* triaxial_df = calculate_s_t_values(triaxial_df); ret2 keeps the table of
\* the stage before
StageCalculateSTValues ==
  /\ op = "generate_triaxial_with_lithology"
  /\ "raised" \notin DOMAIN ret
  /\ op' = "triaxial_df = calculate_s_t_values(triaxial_df)"
  /\ \E minus_none \in MinusNone : ret' = calculate_s_t_values(ret, minus_none)
  /\ ret2' = ret
  /\ UNCHANGED <<args, parser_vars>>

\* triaxial_df = remove_duplicate_tests(triaxial_df)
StageRemoveDuplicateTests ==
  /\ op = "triaxial_df = calculate_s_t_values(triaxial_df)"
  /\ "raised" \notin DOMAIN ret
  /\ op' = "triaxial_df = remove_duplicate_tests(triaxial_df)"
  /\ ret' = remove_duplicate_tests(ret)
  /\ ret2' = ret
  /\ UNCHANGED <<args, parser_vars>>

InitPipeline ==
  /\ ParserIdle
  /\ op = ""
  /\ args \in Registries
  /\ ret = <<>>
  /\ ret2 = <<>>

NextPipeline ==
  \/ GenerateTriaxialTable
  \/ GenerateTriaxialWithLithology
  \/ StageCalculateSTValues
  \/ StageRemoveDuplicateTests

SpecPipeline == InitPipeline /\ [][NextPipeline]_vars

(* --------------------------- GIU table ingest --------------------------- *)

\* A GIU table as read from the file is a list of records HOLE_ID (a text or
\* NaN), DEPTH_FROM, DEPTH_TO (None or Some(depth)) and LITH.

\* load_giu_table(file), from the table read to the table returned
load_giu_table(df) ==
  LET typed == [i \in 1..Len(df) |-> [df[i] EXCEPT !.HOLE_ID = astype_str(@)]]
      kept == SelectSeq(typed, LAMBDA g : /\ g.HOLE_ID # NaN
                                          /\ g.DEPTH_FROM # None
                                          /\ g.DEPTH_TO # None)
      swap(g) == g.DEPTH_FROM[1] > g.DEPTH_TO[1]
  IN [i \in 1..Len(kept) |->
        IF swap(kept[i])
        THEN [kept[i] EXCEPT !.DEPTH_FROM = kept[i].DEPTH_TO,
                             !.DEPTH_TO = kept[i].DEPTH_FROM]
        ELSE kept[i]]

\* giu_df = load_giu_table(giu_file)
LoadGiuTable ==
  /\ op = ""
  /\ op' = "load_giu_table"
  /\ ret' = load_giu_table(args)
  /\ UNCHANGED <<args, ret2, parser_vars>>

\* The GIU table of main, which only converts the depths, as grouped by
\* generate_triaxial_with_lithology: groupby leaves out the rows without
\* HOLE_ID, dropna the rows without a depth.
GiuByHole ==
  /\ op = ""
  /\ op' = "giu_by_hole"
  /\ ret' = SelectSeq(args, LAMBDA g : /\ g.HOLE_ID # NaN
                                       /\ g.DEPTH_FROM # None
                                       /\ g.DEPTH_TO # None)
  /\ UNCHANGED <<args, ret2, parser_vars>>

InitGiu ==
  /\ ParserIdle
  /\ op = ""
  /\ args \in UNION {[1..n -> [HOLE_ID : {txt.BH1, NaN},
                               DEPTH_FROM : {None} \cup {Some(d) : d \in Depths},
                               DEPTH_TO : {None} \cup {Some(d) : d \in Depths},
                               LITH : {txt.CLAY}]] : n \in 0..MaxIntervals}
  /\ ret = <<>>
  /\ ret2 = <<>>

NextGiu ==
  \/ LoadGiuTable
  \/ GiuByHole

SpecGiu == InitGiu /\ [][NextGiu]_vars

(* ------------------- combine_groups over several files ------------------ *)

\* combined_groups = combine_groups(all_groups)
CombineGroupsOfFiles ==
  /\ op = ""
  /\ op' = "combine_groups"
  /\ ret' = combine_groups(args)
  /\ UNCHANGED <<args, ret2, parser_vars>>

\* One or two files, f1.ags and f2.ags in this order.  A file may hold a
\* TRIX table of up to two rows over HOLE_ID and CELL, with blank and null
\* cells, and a DETL table of one row.
InitCombine ==
  LET rows == {(colname.HOLE_ID :> h) @@ (colname.CELL :> c) :
                 h \in {txt.BH1, txt.empty}, c \in {txt.v100, NaN}}
      trix == {[cols |-> {colname.HOLE_ID, colname.CELL}, rows |-> rs] :
                 rs \in UNION {[1..n -> rows] : n \in 0..2}}
      detl == DataFrame(<<(colname.HOLE_ID :> txt.BH2) @@ (txt.DETL_DESC :> txt.SAND)>>)
      gdicts == {[g \in {h \in {txt.TRIX, txt.DETL} :
                           (h = txt.TRIX /\ Len(a) = 1) \/ (h = txt.DETL /\ d)} |->
                    IF g = txt.TRIX THEN a[1] ELSE detl] :
                   a \in {<<>>} \cup {<<x>> : x \in trix}, d \in BOOLEAN}
      fnames == <<txt.f1, txt.f2>>
  IN /\ ParserIdle
     /\ op = ""
     /\ args \in {[k \in 1..Len(gs) |-> [fname |-> fnames[k], gdict |-> gs[k]]] :
                    gs \in UNION {[1..n -> gdicts] : n \in 1..2}}
     /\ ret = <<>>
     /\ ret2 = <<>>

NextCombine == CombineGroupsOfFiles

SpecCombine == InitCombine /\ [][NextCombine]_vars

(* --------------------- agsparser.py: _split_quoted_csv ------------------ *)

\* The fields of a line built by quoting: at most MaxFields of them.
MaxFields == 3

\* The dialect of csv.reader without doublequote: a quote character ends the
\* quoted part of a field.
doublequote_off == FALSE

\* The dialect of csv.reader (excel): two quote characters in a quoted field
\* stand for one.
doublequote == TRUE

\* next(csv.reader(io.StringIO(line), strict=False, skipinitialspace=True))
\* for a line without line breaks: the reader's state machine, character by
\* character, then the end of the data, which saves the field in progress.
RECURSIVE csv_reader(_, _, _, _)
csv_reader(chars, state, field, fields) ==
  IF chars = <<>> THEN Append(fields, field)
  ELSE LET c == Head(chars)
           rest == Tail(chars)
       IN CASE state = "START_FIELD" ->
                 IF c = "\"" THEN csv_reader(rest, "IN_QUOTED_FIELD", field, fields)
                 ELSE IF c = " " THEN csv_reader(rest, "START_FIELD", field, fields)
                 ELSE IF c = ","
                 THEN csv_reader(rest, "START_FIELD", <<>>, Append(fields, field))
                 ELSE csv_reader(rest, "IN_FIELD", Append(field, c), fields)
            [] state = "IN_FIELD" ->
                 IF c = ","
                 THEN csv_reader(rest, "START_FIELD", <<>>, Append(fields, field))
                 ELSE csv_reader(rest, "IN_FIELD", Append(field, c), fields)
            [] state = "IN_QUOTED_FIELD" ->
                 IF c = "\""
                 THEN csv_reader(rest,
                                 IF doublequote THEN "QUOTE_IN_QUOTED_FIELD"
                                 ELSE "IN_FIELD",
                                 field, fields)
                 ELSE csv_reader(rest, "IN_QUOTED_FIELD", Append(field, c), fields)
            [] state = "QUOTE_IN_QUOTED_FIELD" ->
                 IF c = "\""
                 THEN csv_reader(rest, "IN_QUOTED_FIELD", Append(field, c), fields)
                 ELSE IF c = ","
                 THEN csv_reader(rest, "START_FIELD", <<>>, Append(fields, field))
                 ELSE csv_reader(rest, "IN_FIELD", Append(field, c), fields)

\* _split_quoted_csv(line)
split_quoted_csv(raw_line) ==
  IF raw_line = <<>> \/ strip(raw_line, WS) = <<>> THEN <<>>
  ELSE csv_reader(strip(raw_line, WS), "START_FIELD", <<>>, <<>>)

\* The line that quoting builds from a list of field values: every value
\* between double quotes with its double quotes doubled, joined by commas.
quoted_line(values) ==
  LET RECURSIVE doubled(_)
      doubled(v) == IF v = <<>> THEN <<>>
                    ELSE (IF Head(v) = "\"" THEN <<"\"", "\"">> ELSE <<Head(v)>>)
                         \o doubled(Tail(v))
  IN join([i \in 1..Len(values) |-> <<"\"">> \o doubled(values[i]) \o <<"\"">>],
          <<",">>)

\* parts = _split_quoted_csv(line)
SplitQuotedCsv ==
  /\ op = ""
  /\ op' = "_split_quoted_csv"
  /\ ret' = split_quoted_csv(args.line)
  /\ UNCHANGED <<args, ret2, parser_vars>>

\* The lines built by quoting up to MaxFields values, which may be empty,
\* blank, or hold commas, double quotes and spaces at either end.
InitTokenizer ==
  LET values == {<<>>, <<"a">>, <<",">>, <<"\"">>, <<" ">>, <<"a", ",", "b">>,
                 <<"\"", "\"">>, <<" ", "a", " ">>, <<"a", "\"", ",">>}
  IN /\ ParserIdle
     /\ op = ""
     /\ args \in {[fields |-> vs, line |-> quoted_line(vs)] :
                    vs \in UNION {[1..n -> values] : n \in 0..MaxFields}}
     /\ ret = <<>>
     /\ ret2 = <<>>

NextTokenizer == SplitQuotedCsv

SpecTokenizer == InitTokenizer /\ [][NextTokenizer]_vars

(* -------------------- agsparser.py: analyze_ags_content ---------------- *)

\* The lines of a file handed to analyze_ags_content: at most MaxScanned.
MaxScanned == 3

\* analyze_ags_content(file_bytes), on content.splitlines(): the raw tests on
\* the first 50 lines, each stripped.
analyze_ags_content(lines) ==
  LET scanned == SubSeq(lines, 1, Min(Len(lines), 50))
      stripped == [i \in 1..Len(scanned) |-> strip(scanned[i], WS)]
      has(part, text) == find(text, part) # 0
      some(test(_)) == \E i \in 1..Len(stripped) : stripped[i] # <<>> /\ test(stripped[i])
      yes_no(b) == IF b THEN "Yes" ELSE "No"
  IN [AGS3 |-> yes_no(some(LAMBDA text : \/ startswith(text, <<"\"">> \o kw.STARS)
                                        \/ startswith(text, kw.STARS))),
      AGS4 |-> yes_no(some(LAMBDA text : \/ startswith(text, <<"\"">> \o kw.GROUP \o <<"\"">>)
                                        \/ startswith(text, kw.GROUP))),
      Contains_LOCA |-> yes_no(some(LAMBDA text : /\ has(kw.GROUP, text)
                                                 /\ has(<<"L","O","C","A">>, text))),
      Contains_HOLE |-> yes_no(some(LAMBDA text : has(kw.STARS \o <<"H","O","L","E">>, text)))]

\* flags = analyze_ags_content(raw)
AnalyzeAgsContent ==
  /\ op = ""
  /\ op' = "analyze_ags_content"
  /\ ret' = analyze_ags_content(args)
  /\ UNCHANGED <<args, ret2, parser_vars>>

\* Files of up to MaxScanned lines: group, heading and data lines of AGS4,
\* quoted or not, in upper or lower case, group, heading and data lines of
\* AGS3, and a blank line.
InitAnalyzer ==
  LET menu == {<<"\"","G","R","O","U","P","\"",",","\"","L","O","C","A","\"">>,
                <<"G","R","O","U","P",",","T","R","I","X">>,
                <<"\"","g","r","o","u","p","\"",",","\"","T","R","I","X","\"">>,
                <<"G","R","O","U","P","S",",","T","R","I","X">>,
                <<"\"","H","E","A","D","I","N","G","\"",",","\"","H","O","L","E","_","I","D","\"">>,
                <<"\"","D","A","T","A","\"",",","\"","B","H","1","\"">>,
                <<"\"","*","*","D","E","T","L","\"">>,
                <<"*","*","H","O","L","E">>,
                <<"\"","*","H","O","L","E","_","I","D","\"">>,
                <<"\"","B","H","1","\"",",","\"","5",".","0","\"">>,
                <<" ">>}
  IN /\ ParserIdle
     /\ op = ""
     /\ args \in UNION {[1..n -> menu] : n \in 0..MaxScanned}
     /\ ret = <<>>
     /\ ret2 = <<>>

NextAnalyzer == AnalyzeAgsContent

SpecAnalyzer == InitAnalyzer /\ [][NextAnalyzer]_vars

(* ------------------------- claims on the parser ------------------------ *)

\* The last record of group g in a registry.
last_record(gd, g) == gd[g][Len(gd[g])]

\* The line read last took the AGS4 DATA branch with a group and headings bound.
ReadAgs4Data ==
  /\ nlines > 0 /\ line # <<>>
  /\ is_ags4 /\ Keyword[line] = kw.DATA
  /\ HasGroup(pre.current_group) /\ pre.headings # <<>>

\* The line read last took the AGS3 data-row branch.
ReadAgs3Data ==
  /\ nlines > 0 /\ line # <<>>
  /\ is_ags3 /\ ~is_ags4
  /\ Keyword[line] \notin {kw.CONT, kw.UNITS, kw.UNIT, kw.UNIT_B}
  /\ ~(Keyword[line] = <<>> /\ Len(line) > 1 /\ Keyword2[line] = kw.CONT)
  /\ ~startswith(Keyword[line], <<"*">>)
  /\ HasGroup(pre.current_group) /\ pre.headings # <<>>

\* tokens[first + i - 1] is the value of heading i for every heading that has
\* a token, the record holds nothing else, and it is the new last record of
\* the current group, now collecting data.
BoundByPosition(first) ==
  LET g == pre.current_group[1]
      h == pre.headings
      n == Min(Len(h), Len(line) - first + 1)
      rec == last_record(group_data, g)
  IN /\ current_group = pre.current_group
     /\ headings = h
     /\ Len(group_data[g]) = Len(pre.group_data[g]) + 1
     /\ SubSeq(group_data[g], 1, Len(pre.group_data[g])) = pre.group_data[g]
     /\ DOMAIN rec = {h[i] : i \in 1..n}
     /\ \A i \in 1..n : rec[h[i]] = line[first + i - 1]
     /\ data_started

\* The state after the three lines GROUP,"TRIX" / HEADING,"HOLE_ID",
\* "SPEC_DEPTH","CELL","DEVF" / DATA,"BH1","5.0","100","50".
AfterTrixExample ==
  /\ nlines = 3 /\ is_ags4
  /\ line = Line.L4_DATA_TRIX
  /\ pre.current_group = Some(txt.TRIX)
  /\ pre.headings = Tail(Line.L4_HEAD_TRIX)
  /\ pre.group_data[txt.TRIX] = <<>>

TrixExampleRecord ==
  [k \in {colname.HOLE_ID, colname.SPEC_DEPTH, colname.CELL, colname.DEVF} |->
     IF k = colname.HOLE_ID THEN txt.BH1
     ELSE IF k = colname.SPEC_DEPTH THEN txt.v5_0
     ELSE IF k = colname.CELL THEN txt.v100 ELSE txt.v50]

cont_parts ==
  IF Keyword[line] = kw.CONT THEN line ELSE Tail(line)

\* The line read last was a <CONT> line and there was a record to decorate.
ReadContinuation ==
  /\ nlines > 0 /\ line # <<>>
  /\ \/ Keyword[line] = kw.CONT
     \/ Keyword[line] = <<>> /\ Len(line) > 1 /\ Keyword2[line] = kw.CONT
  /\ HasGroup(pre.current_group) /\ pre.headings # <<>>
  /\ pre.group_data[pre.current_group[1]] # <<>>

\* Token i of the <CONT> line, the empty string where the line is shorter.
cont_token(i) == IF i + 1 <= Len(cont_parts) THEN cont_parts[i + 1] ELSE <<>>

\* new is old with the token tok merged into it: unchanged by a blank token
\* or a token already among old's segments, else tok appended after " | ".
MergedInto(old, new, tok) ==
  LET v == strip(tok, WS)
      pieces == split(old, PIPE)
      segments == {strip(pieces[k], WS) : k \in {j \in 1..Len(pieces) : pieces[j] # <<>>}}
  IN IF v = <<>> \/ v \in segments THEN new = old
     ELSE IF old = <<>> THEN new = v
     ELSE new = old \o PIPE \o v

segments_of(value) == split(value, PIPE)

\* C3: applying the same <CONT> line a second time leaves the record as the
\* first application left it, and no field of the decorated record holds a
\* segment twice.
C3_ContinuationIdempotent ==
  ReadContinuation =>
    LET g == pre.current_group[1]
        new == last_record(group_data, g)
    IN /\ repeated => group_data = pre.group_data
       /\ \A f \in DOMAIN new :
            \A i, j \in 1..Len(segments_of(new[f])) :
              i # j => segments_of(new[f])[i] # segments_of(new[f])[j]

\* An AGS3 <CONT>,,"with gravel" read while heading index idx is DETL_DESC
\* and the last record's DETL_DESC is "Sandy clay".
GravelOnSandyClay(idx) ==
  /\ ReadContinuation
  /\ is_ags3 /\ ~is_ags4
  /\ line = Line.L_CONT_GRAVEL
  /\ Len(pre.headings) >= idx + 1
  /\ pre.headings[idx + 1] = txt.DETL_DESC
  /\ get(last_record(pre.group_data, pre.current_group[1]), txt.DETL_DESC) = txt.Sandy_clay

GravelMerged ==
  get(last_record(group_data, pre.current_group[1]), txt.DETL_DESC)
    = txt.Sandy_clay_with_gravel

\* C4 as stated: with DETL_DESC as heading index 1 the record ends with
\* DETL_DESC = "Sandy clay | with gravel".
C4_AsStated == GravelOnSandyClay(1) => GravelMerged

\* C4, amended: in an AGS3 file <CONT>,,"with gravel" carries "with gravel" as
\* token 2, so it is merged into heading index 2: with DETL_DESC as heading
\* index 2 the record ends with DETL_DESC = "Sandy clay | with gravel", and
\* with DETL_DESC as heading index 1 its DETL_DESC stays "Sandy clay".
C4_GravelMergedAtIndex2 ==
  /\ GravelOnSandyClay(2) => GravelMerged
  /\ GravelOnSandyClay(1) =>
       get(last_record(group_data, pre.current_group[1]), txt.DETL_DESC) = txt.Sandy_clay

C4_Witness == GravelOnSandyClay(2) /\ GravelMerged

\* A row whose only populated heading field is HOLE_ID.
OnlyHoleId(row) ==
  /\ colname.HOLE_ID \in DOMAIN row
  /\ ~is_blank(row[colname.HOLE_ID])
  /\ \A c \in DOMAIN row \ {colname.HOLE_ID, colname.SOURCE_FILE} : is_blank(row[c])

\* C9: a parsed record with only HOLE_ID populated is not in the table that
\* combine_groups returns for its group.
C9_SingletonRecordDropped ==
  pc = "combined" =>
    \A g \in DOMAIN combined :
      \A i \in 1..Len(combined[g].rows) : ~OnlyHoleId(combined[g].rows[i])

\* C16: a step of the parsing loop that reads a line for which the
\* tokenizer returned no token adds one entry to parse_errors, the list whose
\* length is the failure count at the end of the parse.
C16_UntokenizedLineCounted ==
  [][(pc = "parse" /\ nlines' = nlines + 1 /\ line' = <<>>)
       => Len(parse_errors') = Len(parse_errors) + 1]_vars

(* ---------------------- claims on the row cleaners ---------------------- *)

\* The fields of a row that are neither null nor empty nor whitespace-only.
NonBlankFields(row) == {c \in DOMAIN row : row[c] # NaN /\ strip(row[c], WS) # <<>>}

RECURSIVE RowsWithTwoFields(_)
RowsWithTwoFields(rows) ==
  IF rows = <<>> THEN <<>>
  ELSE (IF Cardinality(NonBlankFields(Head(rows))) >= 2 THEN <<Head(rows)>> ELSE <<>>)
       \o RowsWithTwoFields(Tail(rows))

\* C8: drop_singleton_rows returns exactly the rows of its input that have
\* at least two fields which are neither null nor empty nor whitespace-only,
\* in their original order, on the same columns.
C8_KeepsRowsWithTwoFields ==
  op = "drop_singleton_rows" =>
    /\ ret.cols = args.cols
    /\ ret.rows = RowsWithTwoFields(args.rows)

\* A row with one field beside a null and a whitespace-only cell is dropped
\* and the row with two fields that follows it is kept.
C8_Witness ==
  /\ op = "drop_singleton_rows"
  /\ Len(args.rows) = 2
  /\ args.rows[1][colname.HOLE_ID] = NaN
  /\ args.rows[1][txt.DETL_DESC] = txt.A
  /\ args.rows[1][txt.DETL_TOP] = txt.space
  /\ Cardinality(NonBlankFields(args.rows[2])) = 2
  /\ ret.rows = <<args.rows[2]>>

\* A cell that holds several " | " separated values.
MultiValued(cell) == cell # NaN /\ Len(split(cell, PIPE)) > 1

\* A cell that is one value repeated n times.
RepeatsOneValue(cell, n) ==
  LET segs == split(cell, PIPE)
  IN Len(segs) = n /\ \A i \in 1..n : segs[i] = segs[1]

\* A row with a multi-valued cell whose multi-valued cells each repeat one
\* value, all the same number of times.
UniformRepetition(row) ==
  \E c \in DOMAIN row :
    /\ MultiValued(row[c])
    /\ \A d \in DOMAIN row :
         MultiValued(row[d]) => RepeatsOneValue(row[d], Len(split(row[c], PIPE)))

\* C10: expand_rows turns every row whose multi-valued cells are uniform
\* repetitions into one row, whatever its single-valued cells hold.
C10_UniformRepetitionCollapses ==
  (op = "expand_rows" /\ \A i \in 1..Len(args.rows) : UniformRepetition(args.rows[i]))
    => Len(ret.rows) = Len(args.rows)


(* -------------------- claims on the lithology mappers ------------------- *)

Mapped == op \in {"map_litho", "map_lithology"}

\* The intervals of the specimen's borehole that contain its depth.
Containing(row, giu) ==
  {i \in 1..Len(giu) : /\ giu[i].HOLE_ID = row.HOLE_ID
                        /\ giu[i].DEPTH_FROM <= row.SPEC_DEPTH[1]
                        /\ row.SPEC_DEPTH[1] <= giu[i].DEPTH_TO}

Span(g) == g.DEPTH_TO - g.DEPTH_FROM

\* Interval i is a narrowest containing interval and, among the narrowest,
\* one that starts deepest.
NarrowestDeepest(row, giu, i) ==
  /\ i \in Containing(row, giu)
  /\ \A j \in Containing(row, giu) :
       /\ Span(giu[j]) >= Span(giu[i])
       /\ Span(giu[j]) = Span(giu[i]) => giu[j].DEPTH_FROM <= giu[i].DEPTH_FROM

\* C5: for a specimen with a borehole id and a depth, the label the mapper
\* assigns is that of a containing interval of the borehole with the
\* smallest span and, among those, the largest depth_from; it is null when
\* no interval of the borehole contains the depth.
C5_NarrowestIntervalChosen ==
  (Mapped /\ args.row.HOLE_ID # NaN /\ args.row.SPEC_DEPTH # None) =>
    IF Containing(args.row, args.giu) = {} THEN ret = NaN
    ELSE \E i \in Containing(args.row, args.giu) :
           /\ NarrowestDeepest(args.row, args.giu, i)
           /\ ret = args.giu[i].LITHOLOGY

(* ------------------- claims on the duplicate remover -------------------- *)

\* A float value in thousandths rounded to 2 decimals, in hundredths.
Rounded2(x) == IF x % 10 < 5 THEN x \div 10 ELSE (x \div 10) + 1

\* The composite key of a row: its cells on the key columns that exist, the
\* float ones rounded to 2 decimals.
KeyColumns(df) == df.cols \cap Range(key_cols)

CompositeKey(df, row) ==
  [c \in KeyColumns(df) |->
     IF c \in {colname.SPEC_DEPTH, colname.CELL, colname.DEVF, colname.PWPF} /\ row[c] # None
     THEN Some(Rounded2(row[c][1])) ELSE row[c]]

\* The rows whose key no earlier row has, in order.
RECURSIVE FirstOfEveryKey(_, _, _)
FirstOfEveryKey(df, rows, seen) ==
  IF rows = <<>> THEN <<>>
  ELSE LET k == CompositeKey(df, Head(rows))
       IN (IF k \in seen THEN <<>> ELSE <<Head(rows)>>)
          \o FirstOfEveryKey(df, Tail(rows), seen \cup {k})

Deduplicated == op \in {"remove_duplicate_tests", "remove_duplicate_tests twice"}

\* C6: remove_duplicate_tests leaves the table unchanged when fewer than 3
\* key columns exist, and otherwise returns the first row of every composite
\* key (float columns rounded to 2 decimals) in original order, removing
\* every later row with the same key.
C6_KeepsFirstOfEveryKey ==
  Deduplicated =>
    IF Cardinality(KeyColumns(args)) < 3 THEN ret = args
    ELSE ret = [cols |-> args.cols, rows |-> FirstOfEveryKey(args, args.rows, {})]

\* No two rows of the table share a composite key.
KeysUnique(df) ==
  \A i, j \in 1..Len(df.rows) :
    CompositeKey(df, df.rows[i]) = CompositeKey(df, df.rows[j]) => i = j

\* C7 as stated: in the output of remove_duplicate_tests no two rows share
\* the rounded composite key, and a second run on the output returns it
\* unchanged.
C7_AsStated ==
  /\ Deduplicated => KeysUnique(ret)
  /\ op = "remove_duplicate_tests twice" => ret2 = ret

\* C7: a second run of remove_duplicate_tests on its own output returns the
\* same rows in the same order, and when at least 3 key columns exist no two
\* rows of the output share the rounded composite key.
C7_IdempotentAndUniqueFrom3Keys ==
  /\ (Deduplicated /\ Cardinality(KeyColumns(args)) >= 3) => KeysUnique(ret)
  /\ op = "remove_duplicate_tests twice" => ret2 = ret

\* The first run removed the third row, which repeats the key of the first
\* after another key; the second run has returned its input.
C7_Witness ==
  /\ op = "remove_duplicate_tests twice"
  /\ Cardinality(KeyColumns(args)) >= 3
  /\ Len(args.rows) = 3
  /\ CompositeKey(args, args.rows[1]) = CompositeKey(args, args.rows[3])
  /\ args.rows[1] # args.rows[3]
  /\ ret.rows = <<args.rows[1], args.rows[2]>>
  /\ ret2 = ret

(* ------------------ claims on calculate_s_t_values ---------------------- *)

Calculated == op = "calculate_s_t_values"

Returned == "raised" \notin DOMAIN ret

\* The cell of a row of the input in column c is missing: the table has no
\* such column, or the cell is null.
Missing(i, c) == c \notin args.cols \/ args.rows[i][c] = None

\* C11: calculate_s_t_values never raises, and for every row s_effective is
\* null when PWPF is null or its column is absent, and t and s_total are null
\* when CELL or DEVF is null or its column is absent.
C11_NullOperandsPropagate ==
  Calculated =>
    /\ Returned
    /\ \A i \in 1..Len(args.rows) :
         /\ Missing(i, colname.PWPF) => ret.rows[i][col.s_effective] = None
         /\ (Missing(i, colname.CELL) \/ Missing(i, colname.DEVF)) =>
              /\ ret.rows[i][col.t] = None
              /\ ret.rows[i][col.s_total] = None

\* The values of C12 for the row i of the input, whose CELL and DEVF are
\* known: numbers are held doubled, so 2 * t = DEVF reads t[1] * 2 = DEVF[1].
StressIdentity(i) ==
  LET in == args.rows[i]
      out == ret.rows[i]
      CELL == in[colname.CELL][1]
      DEVF == in[colname.DEVF][1]
  IN /\ out[col.t] # None /\ out[col.t][1] * 2 = DEVF
     /\ out[col.s_total] = Some(CELL + out[col.t][1])
     /\ IF ~Missing(i, colname.PWPF)
        THEN /\ out[col.s_effective] = Some(CELL + out[col.t][1] - in[colname.PWPF][1])
             /\ out[col.s] = out[col.s_effective]
             /\ out[col.s_source] = "effective"
        ELSE /\ out[col.s] = out[col.s_total]
             /\ out[col.s_source] = "total"

Built == op = "generate_triaxial_table"

\* C13: generate_triaxial_table never raises, whichever of SAMP, CLSS, TRIG,
\* TREG, TRIX, TRET is missing from the registry or empty, and it returns an
\* empty table when the registry has neither TRIX nor TRET.
C13_NeverRaisesAndEmptyWithoutResults ==
  Built =>
    /\ Returned
    /\ (txt.TRIX \notin DOMAIN args /\ name.TRET \notin DOMAIN args) => empty(ret)

(* ------------------------ claims on the pipeline ------------------------ *)

StressCalculated == op = "triaxial_df = calculate_s_t_values(triaxial_df)"

DuplicatesRemoved == op = "triaxial_df = remove_duplicate_tests(triaxial_df)"

\* The columns of the lithology label, the test type and the source file.
CarriedColumns ==
  {col.LITHOLOGY, col.LITH, colname.TEST_TYPE, name.TRIG_TYPE, name.TREG_TYPE, colname.SOURCE_FILE}

\* C17: in pipeline order, the calculator keeps in every row the lithology
\* label, the test type and the source file that the table of the mapper
\* carries, and the table the duplicate remover returns is made of rows of
\* the calculator's table with s, t, s_total, s_effective and s_source: no
\* later stage drops a column an earlier stage produced.
C17_LaterStagesKeepColumns ==
  /\ (StressCalculated /\ Returned) =>
       /\ CarriedColumns \cap ret2.cols \subseteq ret.cols
       /\ \A i \in 1..Len(ret.rows) : \A c \in CarriedColumns \cap ret2.cols :
            ret.rows[i][c] = ret2.rows[i][c]
  /\ DuplicatesRemoved =>
       /\ ret.cols = ret2.cols
       /\ {col.s, col.t, col.s_total, col.s_effective, col.s_source} \subseteq ret.cols
       /\ \A i \in 1..Len(ret.rows) : ret.rows[i] \in Range(ret2.rows)

MapperRan == op = "generate_triaxial_with_lithology"

\* The interval k of the GIU table of the registry is of the borehole of the
\* row i of the mapper's table, the ids compared upper-cased and trimmed,
\* and contains the depth of the row.
IntervalOfRow(i, k) ==
  LET row == ret.rows[i]
      g == args[name.GIU].rows[k]
  IN /\ {colname.HOLE_ID, colname.SPEC_DEPTH} \subseteq ret.cols
     /\ row[colname.SPEC_DEPTH] # None
     /\ strip(upper(row[colname.HOLE_ID]), WS) = strip(upper(g[colname.HOLE_ID]), WS)
     /\ g[name.DEPTH_FROM][1] <= row[colname.SPEC_DEPTH][1]
     /\ row[colname.SPEC_DEPTH][1] <= g[name.DEPTH_TO][1]

\* C18: the mapper gives a label to every specimen whose depth lies in an
\* interval of a GIU borehole whose id equals the specimen's after
\* upper-casing and trimming both.
C18_HoleIdsComparedNormalized ==
  (MapperRan /\ Returned /\ name.GIU \in DOMAIN args) =>
    \A i \in 1..Len(ret.rows) : \A k \in 1..Len(args[name.GIU].rows) :
      IntervalOfRow(i, k) => ret.rows[i][col.LITHOLOGY] # NaN

(* ------------------------ claims on the GIU ingest ---------------------- *)

\* The rows of the table read that have an identifier and both depths.
CompleteRows ==
  SelectSeq(args, LAMBDA g : g.HOLE_ID # NaN /\ g.DEPTH_FROM # None /\ g.DEPTH_TO # None)

\* C19: the intervals handed to the mapper are the rows of the table read
\* that have an identifier and both depths, in order, each with the smaller
\* of its two depths as DEPTH_FROM and the larger as DEPTH_TO.
C19_IntervalsCompleteAndOrdered ==
  op # "" =>
    /\ Len(ret) = Len(CompleteRows)
    /\ \A k \in 1..Len(ret) :
         LET g == CompleteRows[k]
             inverted == g.DEPTH_FROM[1] > g.DEPTH_TO[1]
         IN /\ ret[k].HOLE_ID = g.HOLE_ID
            /\ ret[k].LITH = g.LITH
            /\ ret[k].DEPTH_FROM = (IF inverted THEN g.DEPTH_TO ELSE g.DEPTH_FROM)
            /\ ret[k].DEPTH_TO = (IF inverted THEN g.DEPTH_FROM ELSE g.DEPTH_TO)

(* ------------------------ claims on combine_groups ---------------------- *)

Combined == op = "combine_groups"

\* The file k holds a non-empty table of the group g.
Holds(k, g) == g \in DOMAIN args[k].gdict /\ ~empty(args[k].gdict[g])

\* The columns of the stacked table of the group g.
StackedColumns(g) ==
  UNION {args[k].gdict[g].cols : k \in {j \in 1..Len(args) : Holds(j, g)}}
  \cup {colname.SOURCE_FILE}

\* The rows of the group g from the files k.., in file order, each on the
\* columns of the stack with the name of its file in SOURCE_FILE; a row counts
\* as singleton by its own fields, of which SOURCE_FILE is none when
\* provenance_counts is FALSE.
RECURSIVE Stacked(_, _, _)
Stacked(g, k, provenance_counts) ==
  IF k > Len(args) THEN <<>>
  ELSE LET rows == IF Holds(k, g) THEN args[k].gdict[g].rows ELSE <<>>
           tagged == [i \in 1..Len(rows) |->
                        [c \in StackedColumns(g) |->
                           IF c = colname.SOURCE_FILE THEN args[k].fname
                           ELSE IF c \in DOMAIN rows[i] THEN rows[i][c]
                           ELSE NaN]]
           fields(i) == IF provenance_counts THEN NonBlankFields(tagged[i])
                        ELSE NonBlankFields(rows[i]) \ {colname.SOURCE_FILE}
       IN SelectSeqIdx(tagged, [i \in 1..Len(rows) |-> Cardinality(fields(i)) >= 2])
          \o Stacked(g, k + 1, provenance_counts)

\* C14: combine_groups returns a table for exactly the groups of which some
\* file holds a non-empty table, made of the rows of the group from all the
\* files in file order, each with the name of its file in SOURCE_FILE, without
\* the rows that have fewer than two non-blank fields of their own.
C14_StackedTaggedAndFiltered ==
  Combined =>
    /\ DOMAIN ret = {g \in {txt.TRIX, txt.DETL} : \E k \in 1..Len(args) : Holds(k, g)}
    /\ \A g \in DOMAIN ret :
         /\ ret[g].cols = StackedColumns(g)
         /\ ret[g].rows = Stacked(g, 1, FALSE)

(* ---------------------- claims on _split_quoted_csv --------------------- *)

Tokenized == op = "_split_quoted_csv"

\* C20: _split_quoted_csv returns exactly the field values from which the
\* line was built by quoting, every one of them, the empty ones included.
C20_TokenizingInvertsQuoting ==
  Tokenized => ret = args.fields

\* "a,b", the empty string and a double quote came back from
\* "a,b","","""" as three values.
C20_Witness ==
  /\ Tokenized
  /\ args.fields = <<<<"a", ",", "b">>, <<>>, <<"\"">>>>
  /\ args.line = <<"\"", "a", ",", "b", "\"", ",", "\"", "\"", ",",
                   "\"", "\"", "\"", "\"">>
  /\ ret = args.fields

(* --------------------- claims on analyze_ags_content -------------------- *)

Analyzed == op = "analyze_ags_content"

\* The first token of a line of the file, without quotes and in upper case;
\* a line without tokens has none.
FirstToken(k) ==
  LET parts == split_quoted_csv(args[k])
  IN IF parts = <<>> THEN <<>> ELSE normalize_token(parts[1])

\* C15: analyze_ags_content flags AGS4 exactly when the first token of a
\* line of the file is GROUP, in any letter case, quoted or not, and AGS3
\* exactly when the first token of a line starts with **.
C15_FlagsByFirstToken ==
  Analyzed =>
    /\ ret.AGS4 = "Yes" <=> \E k \in 1..Len(args) : FirstToken(k) = kw.GROUP
    /\ ret.AGS3 = "Yes" <=> \E k \in 1..Len(args) : startswith(FirstToken(k), kw.STARS)

(* -------------- claims on the duplicate remover's key ------------------- *)

\* Row i of the table differs from every earlier row in at least one key
\* column after rounding.
FirstOfItsKey(df, i) ==
  \A j \in 1..(i - 1) : CompositeKey(df, df.rows[j]) # CompositeKey(df, df.rows[i])

\* C30: remove_duplicate_tests removes a row only when an earlier row agrees
\* with it on every available key column after rounding: a row that differs
\* from every earlier row in some key column is still in the output.
C30_RemovesOnlyKeyDuplicates ==
  op = "remove_duplicate_tests" =>
    \A i \in 1..Len(args.rows) :
      FirstOfItsKey(args, i) => args.rows[i] \in Range(ret.rows)

(* ------------------ claims on the parser's line dispatch ---------------- *)

\* The line read last took a heading branch (AGS4 HEADING, AGS3 single *).
ReadHeading ==
  /\ nlines > 0 /\ line # <<>>
  /\ \/ is_ags4 /\ Keyword[line] = kw.HEADING
     \/ /\ ~is_ags4 /\ is_ags3
        /\ startswith(Keyword[line], <<"*">>)
        /\ ~startswith(Keyword[line], kw.STARS)

\* The tokens a heading line declares, leading * stripped.
DeclaredTokens(parts) ==
  IF is_ags4 THEN Tail(parts)
  ELSE [k \in 1..Len(parts) |-> lstrip(parts[k], {"*"})]

\* The records of the current group appended since it was started.
AppendedSinceStart ==
  IF HasGroup(current_group)
  THEN {i \in 1..Len(group_data[current_group[1]]) :
          record_start[current_group[1]][i] = Len(starts)}
  ELSE {}

\* The line read last appended the first record since the current group was
\* started.
ReadFirstDataRow ==
  /\ (ReadAgs4Data \/ ReadAgs3Data)
  /\ Cardinality(AppendedSinceStart) = 1

\* C21: a heading line appends its tokens to the heading list when no record
\* has been appended since the current group was started, and replaces the
\* list otherwise; the first record after the group start is keyed by the
\* tokens of all heading lines read since the start, in order.
C21_SplitHeadingsConcatenate ==
  /\ ReadHeading =>
       headings = IF AppendedSinceStart = {}
                  THEN pre.headings \o DeclaredTokens(line)
                  ELSE DeclaredTokens(line)
  /\ ReadFirstDataRow =>
       /\ headings = starts[Len(starts)]
       /\ DOMAIN last_record(group_data, current_group[1])
            = {headings[k] : k \in 1..Min(Len(headings),
                                          Len(line) - (IF is_ags4 THEN 1 ELSE 0))}

\* Two heading lines were read between the group start and the first record,
\* which is keyed by the tokens of both.
C21_Witness ==
  /\ ReadFirstDataRow
  /\ nlines = 4
  /\ headings = Tail(Line.L4_HEAD_DETL) \o Tail(Line.L4_HEAD_TOP)
  /\ DOMAIN last_record(group_data, current_group[1]) = Range(headings)

\* The line read last took a group-start branch (AGS4 GROUP, AGS3 **).
ReadGroupStart ==
  /\ nlines > 0 /\ line # <<>>
  /\ \/ is_ags4 /\ Keyword[line] = kw.GROUP
     \/ ~is_ags4 /\ is_ags3 /\ startswith(Keyword[line], kw.STARS)

\* The name that a group-start line carries: the second token of a GROUP
\* line, what follows ** in an AGS3 line.
GroupName(parts) ==
  IF is_ags4 THEN parts[2] ELSE SubSeq(Keyword[parts], 3, Len(Keyword[parts]))

ReadNamedGroupStart ==
  /\ ReadGroupStart
  /\ is_ags4 => Len(line) > 1

\* A step that reads a data line: AGS4 DATA, or in an AGS3 file a line that
\* is no <CONT>, unit, group or heading line.
ReadsDataRow ==
  /\ pc = "parse" /\ nlines' = nlines + 1 /\ line' # <<>>
  /\ IF is_ags4 THEN Keyword[line'] = kw.DATA
     ELSE /\ is_ags3
          /\ Keyword[line'] \notin {kw.CONT, kw.UNITS, kw.UNIT, kw.UNIT_B}
          /\ ~(Keyword[line'] = <<>> /\ Len(line') > 1 /\ Keyword2[line'] = kw.CONT)
          /\ ~startswith(Keyword[line'], <<"*">>)

\* C22: a group-start line with a name makes the name the current group and
\* a group of the registry, empties the heading list and clears the
\* collecting-data flag; the heading list stays empty until a heading line
\* is read, and a data row read while it is empty is not appended.
C22_GroupStartResets ==
  /\ [](ReadNamedGroupStart =>
          /\ current_group = Some(GroupName(line))
          /\ GroupName(line) \in DOMAIN group_data
          /\ headings = <<>>
          /\ ~data_started)
  /\ [][/\ (headings = <<>> /\ headings' # <<>>) => ReadHeading'
        /\ (headings = <<>> /\ ReadsDataRow) => group_data' = group_data]_vars

\* GROUP,TRIX / HEADING / DATA / GROUP,DETL / DATA,BH1,Sandy clay: the last
\* line is read under DETL without headings and appends nothing, while TRIX
\* holds its record.
C22_Witness ==
  /\ nlines = 5 /\ is_ags4
  /\ line = Line.L4_DATA_DETL
  /\ pre.current_group = Some(txt.DETL)
  /\ pre.headings = <<>>
  /\ txt.TRIX \in DOMAIN pre.group_data
  /\ Len(pre.group_data[txt.TRIX]) = 1
  /\ group_data = pre.group_data
  /\ group_data[txt.DETL] = <<>>

\* The line read last was a <CONT> line, in column 0 or in column 1.
ReadContLine ==
  /\ nlines > 0 /\ line # <<>>
  /\ \/ Keyword[line] = kw.CONT
     \/ Keyword[line] = <<>> /\ Len(line) > 1 /\ Keyword2[line] = kw.CONT

\* C23: a <CONT> line leaves the current group, the heading list, the
\* collecting-data flag, the groups of the registry and the number of records
\* of every group as they were, and every record other than the last record
\* of the current group is the same after the line as before it.
C23_ContinuationFrame ==
  ReadContLine =>
    /\ current_group = pre.current_group
    /\ headings = pre.headings
    /\ data_started = pre.data_started
    /\ DOMAIN group_data = DOMAIN pre.group_data
    /\ \A g \in DOMAIN group_data :
         /\ Len(group_data[g]) = Len(pre.group_data[g])
         /\ \A i \in 1..Len(group_data[g]) :
              (current_group # Some(g) \/ i # Len(group_data[g]))
                => group_data[g][i] = pre.group_data[g][i]

\* A <CONT> line has changed the second record of a group of two.
C23_Witness ==
  /\ ReadContinuation
  /\ Len(group_data[current_group[1]]) = 2
  /\ group_data[current_group[1]][2] # pre.group_data[current_group[1]][2]
  /\ group_data[current_group[1]][1] = pre.group_data[current_group[1]][1]

\* The heading index that position i of a <CONT> line maps to.
IndexOfPosition(i) == IF is_ags4 THEN i - 1 ELSE i

\* The number of blank tokens of the <CONT> line before position i.
BlanksBefore(i) == Cardinality({j \in 1..(i - 1) : strip(cont_token(j), WS) = <<>>})

ReadDataLine ==
  /\ nlines > 0 /\ line # <<>>
  /\ IF is_ags4 THEN Keyword[line] = kw.DATA
     ELSE /\ is_ags3
          /\ Keyword[line] \notin {kw.CONT, kw.UNITS, kw.UNIT, kw.UNIT_B}
          /\ ~(Keyword[line] = <<>> /\ Len(line) > 1 /\ Keyword2[line] = kw.CONT)
          /\ ~startswith(Keyword[line], <<"*">>)

\* Before the line read last there was a current group and a heading list.
HadGroupAndHeadings == HasGroup(pre.current_group) /\ pre.headings # <<>>

\* C25: a <CONT> line read without a current group, without headings or
\* without a record in the current group, and a data line read without a
\* current group or without headings, leave the registry and the parser
\* state as they were.
C25_LineWithoutContextIsNoOp ==
  /\ (ReadContLine /\ ~ReadContinuation) => Snapshot = pre
  /\ (ReadDataLine /\ ~HadGroupAndHeadings) => Snapshot = pre

\* A <CONT> line was read under a group with headings and no record yet,
\* and changed nothing.
C25_Witness ==
  /\ ReadContLine
  /\ HadGroupAndHeadings
  /\ pre.group_data[pre.current_group[1]] = <<>>
  /\ Snapshot = pre
  /\ Cardinality(DOMAIN group_data) = 2

\* The group-start line read last carries no name: GROUP alone or with an
\* empty second token, ** with nothing after it.
ReadNamelessGroupStart ==
  /\ ReadGroupStart
  /\ IF is_ags4 THEN Len(line) = 1 \/ strip(line[2], WS) = <<>>
     ELSE GroupName(line) = <<>>

\* C26: a group-start line without a group name leaves the current group,
\* the heading list, the collecting-data flag and the set of groups of the
\* registry as they were.
C26_NamelessGroupStartIsNoOp ==
  ReadNamelessGroupStart =>
    /\ current_group = pre.current_group
    /\ headings = pre.headings
    /\ data_started = pre.data_started
    /\ DOMAIN group_data = DOMAIN pre.group_data

(* ------------- claims on groups started more than once ----------------- *)

\* C29: a <CONT> line changes no record that was appended before the most
\* recent group-start line, and changes nothing while no record has been
\* appended since that line.
C29_ContinuationAfterRestart ==
  ReadContLine =>
    /\ \A g \in DOMAIN group_data :
         \A i \in 1..Len(group_data[g]) :
           record_start[g][i] < Len(starts) => group_data[g][i] = pre.group_data[g][i]
    /\ AppendedSinceStart = {} => group_data = pre.group_data

\* C27: every key of every record of the registry is a heading declared
\* under the group start under which the record was appended.
C27_KeysDeclaredUnderOwnStart ==
  \A g \in DOMAIN group_data :
    \A i \in 1..Len(group_data[g]) :
      DOMAIN group_data[g][i] \subseteq Range(starts[record_start[g][i]])

(* ------------- claims on files that trip both flags -------------------- *)

\* The file trips both the AGS3 and the AGS4 flag, and a line was read.
ReadInMixedFile == is_ags3 /\ is_ags4 /\ nlines > 0 /\ line # <<>>

\* The group g is the current group and has a slot in the registry.
Started(g) == current_group = Some(g) /\ g \in DOMAIN group_data

\* C28: in a file that trips both flags, a line whose first token starts
\* with ** starts the AGS3 group named after the stars, and a GROUP line with
\* a name starts the AGS4 group of that name: after either line the group is
\* the current group and is in the registry.
C28_MixedFileDispatch ==
  ReadInMixedFile =>
    /\ startswith(Keyword[line], kw.STARS) =>
         Started(SubSeq(Keyword[line], 3, Len(Keyword[line])))
    /\ (Keyword[line] = kw.GROUP /\ Len(line) > 1) => Started(line[2])

====
